---------------------------- MODULE Spec2Model ----------------------------
(***************************************************************************)
(* Agro-climatic data warehouse: the ETL orchestrator (etl/orchestrator.py)*)
(* the warehouse loader (etl/load/postgres_loader.py) and the store access *)
(* layer (etl/utils/database.py), as a state machine over the warehouse    *)
(* tables.  Every store call is its own transaction (PostgresManager       *)
(* opens, commits and closes a connection per call), so every store call   *)
(* is one atomic step; a process can be interrupted between any two.       *)
(***************************************************************************)
EXTENDS Integers, Sequences, FiniteSets, TLC

(***************************************************************************)
(* Bounds of the model.                                                    *)
(***************************************************************************)
MaxRuns == 2        \* pipeline invocations per behaviour (sequential spec)
MaxFaults == 1      \* injected failures (store, API, crash) per behaviour
MaxDay == 2         \* calendar days the clock can reach
MaxVal == 2         \* versions of the data the external sources can serve
NumDates == 1       \* days in the weather date range of a run
MaxIdemCalls == 3   \* check_idempotency calls per behaviour

(***************************************************************************)
(* Null values, one per column type.                                       *)
(***************************************************************************)
NoKey == 0          \* location_map.get(h) is None (falsy, like key 0)
NullCount == -1     \* records_processed IS NULL
NullDay == 0        \* end_time IS NULL
NullMsg == "None"   \* error_message IS NULL

Procs == {1, 2}
Vals == 1..MaxVal

(***************************************************************************)
(* Coordinates, in units of 10^-7 degree so that the 6-decimal rounding of *)
(* the location hash is visible.  A2 differs from A in the 7th decimal     *)
(* only; Bad has latitude 91.5.                                            *)
(***************************************************************************)
CoordA == <<418781130, -876298000>>
CoordA2 == <<418781132, -876298000>>
CoordB == <<525200000, 134050000>>
CoordBad == <<915000000, 0>>

\* the coordinate lists a caller passes: empty, valid, invalid, two
\* locations, one location twice, valid and invalid in both orders
CoordLists ==
  {<<>>, <<CoordA>>, <<CoordBad>>, <<CoordA, CoordB>>, <<CoordA, CoordA2>>,
   <<CoordA, CoordBad>>, <<CoordBad, CoordA>>}

Unit == 10000000

\* GeoValidator.validate_coordinates: the error text, or "ok"
validate_coordinates(lat, lon) ==
  IF ~(-90 * Unit <= lat /\ lat <= 90 * Unit) THEN "ValueError: Latitude out of range"
  ELSE IF ~(-180 * Unit <= lon /\ lon <= 180 * Unit) THEN "ValueError: Longitude out of range"
  ELSE "ok"

Abs(x) == IF x < 0 THEN -x ELSE x

\* The format rounds the binary double.  A decimal with a seventh digit 5
\* goes to the even neighbour when its double is exact (a multiple of 2^-7,
\* 0.0078125) and away from zero when its double lies beyond it: FormatsUp
\* lists the magnitudes of the checked calls that do (41.8781125 gives
\* "41.878113", 41.8781135 gives "41.878113").
FormatsUp == {418781125}

\* "{x:.6f}": the sign and the digits of x rounded to 6 decimals (units of
\* 10^-6 degree); a negative x that rounds to zero keeps its sign
Fmt6(x) ==
  LET q == Abs(x) \div 10
      r == Abs(x) % 10
      up == IF Abs(x) % 78125 = 0 THEN q % 2 = 1 ELSE Abs(x) \in FormatsUp
      m == IF r > 5 \/ (r = 5 /\ up) THEN q + 1 ELSE q
  IN <<x < 0, m>>

\* hashlib.md5(text).hexdigest(): 32 hexadecimal characters, taken as
\* injective on the formatted text
hexdigest(text) == [md5 |-> text, length |-> 32]

\* DataTransformer.generate_location_hash with the latitude alone
generate_location_hash_of_latitude(lat, lon) == hexdigest(<<Fmt6(lat)>>)

\* DataTransformer.generate_location_hash: md5 of "{lat:.6f},{lon:.6f}"
generate_location_hash(lat, lon) == hexdigest(<<Fmt6(lat), Fmt6(lon)>>)

RECURSIVE SeqToSet(_)
SeqToSet(s) == IF s = <<>> THEN {} ELSE {Head(s)} \cup SeqToSet(Tail(s))

VARIABLES
  \* the warehouse
  dim_location,      \* set of rows
  location_seq,      \* last value of the location_key sequence
  dim_soil,          \* set of rows, unique on (location_key, extraction_date)
  fact_weather,      \* set of rows, unique on (date_key, location_key)
  dim_crop,          \* set of rows, unique on crop_name
  etl_audit_log,     \* batch_id -> row
  audit_updates,     \* batch_id -> number of UPDATEs applied to the row
  idem_keys,         \* etl_idempotency_keys: the committed rows
  idem_pending,      \* process -> the statement of its open transaction
  idem_calls,        \* the finished check_idempotency calls, in order
  cleaner_in,        \* the call of a cleaning function: its name and arguments
  cleaner_out,       \* what the call returned, once it has
  \* the environment
  today,             \* the calendar day (datetime.now().date())
  source_version,    \* the data the soil, weather and crop sources serve
  faults,            \* failures that may still be injected
  coordinates,       \* the coordinate list every pipeline call is given
  batch_seq,         \* number of batch ids generated so far
  \* each process's position in its pipeline call
  calls,             \* pipeline calls started so far
  pc, pipeline, in_full, batch_id,
  extracted,         \* what the extractor of the call has returned so far
  locations, loc_idx, location_map,
  item_idx,          \* position of the running loop over coordinates or crops
  records, total_loaded, exc, faulted, results, full_batches,
  observed,          \* the replies and the dates the call has read so far
  \* history
  run_log,           \* finished calls, oldest first
  snapshots          \* warehouse at the start of the last two domain runs

store == <<dim_location, location_seq, dim_soil, fact_weather, dim_crop>>
audit == <<etl_audit_log, audit_updates>>
idem == <<idem_keys, idem_pending, idem_calls>>
cleaner == <<cleaner_in, cleaner_out>>
env == <<today, source_version, coordinates>>
local == <<pc, pipeline, in_full, batch_id, extracted, locations, loc_idx,
           location_map, item_idx, records, total_loaded, exc, faulted, results,
           full_batches, observed>>
vars == <<store, audit, idem, cleaner, env, faults, batch_seq, calls, local, run_log, snapshots>>


(***************************************************************************)
(* The store.  A failing statement is rolled back (PostgresManager         *)
(* .connection) and leaves every table as it was.                          *)
(***************************************************************************)

\* a lookup that never finds a row
CurrentRowsNone(table, h) == {}

\* SELECT location_key FROM dim_location WHERE location_hash = h AND
\* is_current: the rows the query can return (fetchone takes one of them)
CurrentRows(table, h) == {r \in table : r.location_hash = h /\ r.is_current}

\* INSERT INTO dim_location ... RETURNING location_key: the new row
NewLocationRow(loc, key) ==
  [location_key |-> key, location_hash |-> loc.location_hash,
   latitude |-> loc.latitude, longitude |-> loc.longitude, is_current |-> TRUE]

\* an INSERT under a unique index on location_hash, which dim_location
\* does not have
InsertLocationUnique(table, loc, key) ==
  IF \E r \in table : r.location_hash = loc.location_hash THEN table
  ELSE table \cup {NewLocationRow(loc, key)}

\* the statement of load_locations' insert: dim_location carries no
\* uniqueness constraint on location_hash that the statement could hit
InsertLocation(table, loc, key) == table \cup {NewLocationRow(loc, key)}

\* INSERT ... ON CONFLICT DO UPDATE refuses a statement that proposes two
\* rows with the same constrained key
SoilKey(r) == <<r.location_key, r.extraction_date>>
WeatherKey(r) == <<r.date_key, r.location_key>>
CropKey(r) == r.crop_name

HasDuplicateSoilKeys(rs) ==
  \E i, j \in 1..Len(rs) : i < j /\ SoilKey(rs[i]) = SoilKey(rs[j])
HasDuplicateWeatherKeys(rs) ==
  \E i, j \in 1..Len(rs) : i < j /\ WeatherKey(rs[i]) = WeatherKey(rs[j])
HasDuplicateCropKeys(rs) ==
  \E i, j \in 1..Len(rs) : i < j /\ CropKey(rs[i]) = CropKey(rs[j])

\* an upsert that replaces the whole row
SoilConflictReplace(old, new) == new

\* dim_soil: ON CONFLICT (location_key, extraction_date) DO UPDATE SET
\* soil_texture, ph_level_0_5cm, metadata
SoilConflictUpdate(old, new) ==
  [old EXCEPT !.soil_texture = new.soil_texture,
              !.ph_level_0_5cm = new.ph_level_0_5cm,
              !.metadata = new.metadata]

UpsertSoilRow(table, r) ==
  IF \E x \in table : SoilKey(x) = SoilKey(r)
  THEN {IF SoilKey(x) = SoilKey(r) THEN SoilConflictUpdate(x, r) ELSE x : x \in table}
  ELSE table \cup {r}

RECURSIVE UpsertSoil(_, _)
UpsertSoil(table, rs) ==
  IF rs = <<>> THEN table ELSE UpsertSoil(UpsertSoilRow(table, Head(rs)), Tail(rs))

\* fact_weather: ON CONFLICT (date_key, location_key) DO UPDATE SET
\* temp_max_c, temp_min_c, temp_mean_c, precipitation_mm, batch_id
WeatherConflictUpdate(old, new) ==
  [old EXCEPT !.temp_max_c = new.temp_max_c,
              !.temp_min_c = new.temp_min_c,
              !.temp_mean_c = new.temp_mean_c,
              !.precipitation_mm = new.precipitation_mm,
              !.batch_id = new.batch_id]

\* an INSERT without the ON CONFLICT clause on a table without the key
UpsertWeatherRowInsertOnly(table, r) == table \cup {r}

UpsertWeatherRow(table, r) ==
  IF \E x \in table : WeatherKey(x) = WeatherKey(r)
  THEN {IF WeatherKey(x) = WeatherKey(r) THEN WeatherConflictUpdate(x, r) ELSE x : x \in table}
  ELSE table \cup {r}

RECURSIVE UpsertWeather(_, _)
UpsertWeather(table, rs) ==
  IF rs = <<>> THEN table
  ELSE UpsertWeather(UpsertWeatherRow(table, Head(rs)), Tail(rs))

\* dim_crop: ON CONFLICT (crop_name) DO UPDATE SET optimal_temp_min_c,
\* optimal_temp_max_c, water_requirement_mm_day, extraction_confidence,
\* extraction_date
CropConflictUpdate(old, new) ==
  [old EXCEPT !.optimal_temp_min_c = new.optimal_temp_min_c,
              !.optimal_temp_max_c = new.optimal_temp_max_c,
              !.water_requirement_mm_day = new.water_requirement_mm_day,
              !.extraction_confidence = new.extraction_confidence,
              !.extraction_date = new.extraction_date]

UpsertCropRow(table, r) ==
  IF \E x \in table : CropKey(x) = CropKey(r)
  THEN {IF CropKey(x) = CropKey(r) THEN CropConflictUpdate(x, r) ELSE x : x \in table}
  ELSE table \cup {r}

RECURSIVE UpsertCrop(_, _)
UpsertCrop(table, rs) ==
  IF rs = <<>> THEN table ELSE UpsertCrop(UpsertCropRow(table, Head(rs)), Tail(rs))

\* _init_audit: INSERT INTO etl_audit_log (batch_id, pipeline_name,
\* start_time, status) VALUES (b, name, CURRENT_TIMESTAMP, 'RUNNING')
NewAuditRow(name, day) ==
  [pipeline_name |-> name, start_time |-> day, end_time |-> NullDay,
   status |-> "RUNNING", records_processed |-> NullCount, error_message |-> NullMsg]

(***************************************************************************)
(* The extractors and the transformer.                                     *)
(***************************************************************************)

\* SoilGridsExtractor._parse_response: the SoilData of one coordinate when
\* the source serves version v
SoilData(c, v) ==
  [latitude |-> c[1], longitude |-> c[2], clay_0_5cm |-> v, sand_0_5cm |-> v,
   silt_0_5cm |-> v, ph_0_5cm |-> v, organic_carbon_0_5cm |-> v,
   bulk_density_0_5cm |-> v, water_capacity_0_5cm |-> v, texture |-> v,
   extraction_timestamp |-> v]

\* the daily temperatures in degrees Celsius the archive serves: a plain
\* day, an inverted pair, and a pair outside [-50, 60]
ArchiveTemps ==
  <<[max |-> 25, min |-> 15, mean |-> 20], [max |-> 15, min |-> 25, mean |-> 20],
    [max |-> 75, min |-> -60, mean |-> 20]>>

\* the temperatures of version v of the archive
ArchiveTemp(v) == ArchiveTemps[((v - 1) % Len(ArchiveTemps)) + 1]

\* OpenMeteoExtractor._parse_daily_data: one WeatherData per day of the
\* reply, every value as the archive serves it
WeatherData(c, d, v) ==
  [latitude |-> c[1], longitude |-> c[2], date |-> d,
   temp_max |-> ArchiveTemp(v).max, temp_min |-> ArchiveTemp(v).min,
   temp_mean |-> ArchiveTemp(v).mean, precipitation |-> v,
   evapotranspiration |-> v, solar_radiation |-> v, humidity |-> v,
   wind_speed |-> v, weather_code |-> v]

\* the location record both pipelines build for a coordinate
LocationRecord(lat, lon) ==
  [latitude |-> lat, longitude |-> lon,
   location_hash |-> generate_location_hash(lat, lon)]

\* DataTransformer.transform_soil
transform_soil(sd, location_key, day) ==
  [location_key |-> location_key, soil_texture |-> sd.texture,
   clay_content_0_5cm |-> sd.clay_0_5cm, sand_content_0_5cm |-> sd.sand_0_5cm,
   silt_content_0_5cm |-> sd.silt_0_5cm, ph_level_0_5cm |-> sd.ph_0_5cm,
   organic_carbon_0_5cm |-> sd.organic_carbon_0_5cm,
   bulk_density_0_5cm |-> sd.bulk_density_0_5cm,
   water_capacity_0_5cm |-> sd.water_capacity_0_5cm, soil_depth_cm |-> 5,
   extraction_date |-> day,
   metadata |-> <<"SoilGrids", sd.extraction_timestamp, sd.latitude, sd.longitude>>]

\* DataTransformer.transform_weather; date_key is the date without dashes
transform_weather(wd, location_key) ==
  [location_key |-> location_key, date_key |-> wd.date,
   latitude |-> wd.latitude, longitude |-> wd.longitude,
   temp_max_c |-> wd.temp_max, temp_min_c |-> wd.temp_min,
   temp_mean_c |-> wd.temp_mean, precipitation_mm |-> wd.precipitation,
   evapotranspiration_mm |-> wd.evapotranspiration,
   solar_radiation_mj_m2 |-> wd.solar_radiation,
   humidity_percent |-> wd.humidity, wind_speed_ms |-> wd.wind_speed,
   weather_code |-> wd.weather_code]

\* DataTransformer.transform_crop_requirements of the extraction of crop
\* name n from a source serving version v
transform_crop_requirements(n, v, day) ==
  [crop_name |-> n, optimal_temp_min_c |-> v, optimal_temp_max_c |-> v,
   water_requirement_mm_day |-> v, sunlight_hours_min |-> v,
   sunlight_hours_max |-> v, soil_ph_preference_min |-> v,
   soil_ph_preference_max |-> v, extraction_confidence |-> v,
   extraction_date |-> day, source_urls |-> v]

\* location_map.get(h)
MapGet(m, h) == IF h \in DOMAIN m THEN m[h] ELSE NoKey


(***************************************************************************)
(* The orchestrator.  pc[p] is the position of process p inside its        *)
(* pipeline call: "init" (_init_audit), "soil_extract" (one coordinate at  *)
(* a time), "lookup" and "insert" (load_locations, one record at a time),  *)
(* "soil_transform", "soil_load", "weather_extract", "weather_load",       *)
(* "crop_extract" (one page at a time), "crop_transform", "crop_load",     *)
(* "audit" (audit_completion("SUCCESS")), "except" (the except handler).   *)
(* Between any two steps the clock and the sources can move on.            *)
(***************************************************************************)
EmptyMap == [h \in {} |-> NoKey]
NoResults == [soil |-> 0, weather |-> 0, crops |-> 0]
CropList == <<"wheat", "maize">>
StoreError == "OperationalError"
\* audit_completion hands its UPDATE, which has four '%s' placeholders, to
\* execute_batch; psycopg2's execute_values accepts one and raises this
\* ValueError before anything is sent to the store
PlaceholderError == "ValueError: the query contains more than one '%s' placeholder"
NoExc == ""

\* the warehouse tables, as a value
Warehouse ==
  [dim_location |-> dim_location, location_seq |-> location_seq,
   dim_soil |-> dim_soil, fact_weather |-> fact_weather, dim_crop |-> dim_crop]

\* audit_name of each pipeline, as passed to _init_audit
AuditName(kind) ==
  CASE kind = "soil" -> "soil_extraction"
    [] kind = "weather" -> "weather_extraction"
    [] OTHER -> "crop_extraction"

\* run_full_pipeline: the phase after a phase that returned
NextPhase(kind) == IF kind = "soil" THEN "weather" ELSE "crop"

\* results[...] = the count a phase returned
SetResult(res, kind, n) ==
  CASE kind = "soil" -> [res EXCEPT !.soil = n]
    [] kind = "weather" -> [res EXCEPT !.weather = n]
    [] OTHER -> [res EXCEPT !.crops = n]

\* nothing read yet: no reply of a source, no date of the clock
NoObserved == [replies |-> <<>>, days |-> {}]

\* the record of a finished domain run
RunRecord(p, outcome, value, raised, f) ==
  [proc |-> p, kind |-> pipeline[p], batch |-> batch_id[p], outcome |-> outcome,
   value |-> value, cause |-> exc[p], raised |-> raised,
   replies |-> observed[p].replies, days |-> observed[p].days,
   faulted |-> (faulted[p] # {} \/ f), failures |-> faulted[p],
   last_failed |-> f, res |-> NoResults, batches |-> <<>>]

\* the record of a finished run_full_pipeline call
FullRecord(p, outcome, res, raised, b) ==
  [proc |-> p, kind |-> "full", batch |-> 0, outcome |-> outcome,
   value |-> NullCount, cause |-> raised, raised |-> raised,
   replies |-> <<>>, days |-> {}, faulted |-> FALSE, failures |-> {},
   last_failed |-> FALSE,
   res |-> res, batches |-> b]

\* run_full_pipeline goes on to its next phase only when the phase before
\* returned; an exception of a phase leaves the call
Continues(full, kind, outcome) ==
  full /\ outcome = "returned" /\ kind # "crop"

\* a domain run ends: it returned `value`, raised `raised`, or its process
\* was killed; inside run_full_pipeline a return starts the next phase and
\* a raise ends the whole call
Finish(p, outcome, value, raised, f) ==
  LET rec == RunRecord(p, outcome, value, raised, f)
      more == Continues(in_full[p], pipeline[p], outcome)
      res == IF outcome = "returned" THEN SetResult(results[p], pipeline[p], value)
             ELSE results[p]
      fb == IF batch_id[p] = 0 THEN full_batches[p]
            ELSE Append(full_batches[p], batch_id[p])
  IN /\ run_log' = IF in_full[p] /\ ~more
                   THEN run_log \o <<rec, FullRecord(p, outcome, res, raised, fb)>>
                   ELSE Append(run_log, rec)
     /\ pc' = [pc EXCEPT ![p] = IF more THEN "init" ELSE "idle"]
     /\ pipeline' = [pipeline EXCEPT ![p] = IF more THEN NextPhase(pipeline[p]) ELSE "none"]
     /\ in_full' = [in_full EXCEPT ![p] = more]
     /\ results' = [results EXCEPT ![p] = IF more THEN res ELSE NoResults]
     /\ full_batches' = [full_batches EXCEPT ![p] = IF more THEN fb ELSE <<>>]
     /\ batch_id' = [batch_id EXCEPT ![p] = 0]
     /\ extracted' = [extracted EXCEPT ![p] = <<>>]
     /\ locations' = [locations EXCEPT ![p] = <<>>]
     /\ loc_idx' = [loc_idx EXCEPT ![p] = 0]
     /\ location_map' = [location_map EXCEPT ![p] = EmptyMap]
     /\ item_idx' = [item_idx EXCEPT ![p] = 0]
     /\ records' = [records EXCEPT ![p] = <<>>]
     /\ total_loaded' = [total_loaded EXCEPT ![p] = 0]
     /\ exc' = [exc EXCEPT ![p] = NoExc]
     /\ faulted' = [faulted EXCEPT ![p] = {}]
     /\ observed' = [observed EXCEPT ![p] = NoObserved]

\* a failure is injected into this step
Fault ==
  /\ faults > 0
  /\ faults' = faults - 1

\* the failure `what` is injected into a step of p that does not end the run
Inject(p, what) ==
  /\ Fault
  /\ faulted' = [faulted EXCEPT ![p] = @ \cup {what}]

\* the step raises e inside the try block: control goes to the handler
Raise(p, e) ==
  /\ pc' = [pc EXCEPT ![p] = "except"]
  /\ exc' = [exc EXCEPT ![p] = e]

\* the request for item i of the loop is answered by what the source serves
\* at that moment
ObserveReply(p, i) ==
  observed' = [observed EXCEPT ![p].replies = (i :> source_version) @@ @]

\* datetime.now().date() is read
ObserveDay(p) ==
  observed' = [observed EXCEPT ![p].days = @ \cup {today}]

InitLocal ==
  /\ pipeline = [p \in Procs |-> "none"]
  /\ in_full = [p \in Procs |-> FALSE]
  /\ batch_id = [p \in Procs |-> 0]
  /\ extracted = [p \in Procs |-> <<>>]
  /\ locations = [p \in Procs |-> <<>>]
  /\ loc_idx = [p \in Procs |-> 0]
  /\ location_map = [p \in Procs |-> EmptyMap]
  /\ item_idx = [p \in Procs |-> 0]
  /\ records = [p \in Procs |-> <<>>]
  /\ total_loaded = [p \in Procs |-> 0]
  /\ exc = [p \in Procs |-> NoExc]
  /\ faulted = [p \in Procs |-> {}]
  /\ results = [p \in Procs |-> NoResults]
  /\ full_batches = [p \in Procs |-> <<>>]
  /\ observed = [p \in Procs |-> NoObserved]

\* no cleaning function is called
NoCall == [fn |-> "none"]
NotRun == [done |-> FALSE]

\* the pipelines never call DataCleaner
InitCleaner ==
  /\ cleaner_in = NoCall
  /\ cleaner_out = NotRun

\* no check_idempotency call is open
NoPending == [active |-> FALSE, row |-> <<>>, inserted |-> FALSE]

InitStore ==
  /\ dim_location = {}
  /\ location_seq = 0
  /\ dim_soil = {}
  /\ fact_weather = {}
  /\ dim_crop = {}
  /\ etl_audit_log = [b \in {} |-> 0]
  /\ audit_updates = [b \in {} |-> 0]
  /\ idem_keys = {}
  /\ idem_pending = [p \in Procs |-> NoPending]
  /\ idem_calls = <<>>
  /\ today = 1
  /\ source_version = 1
  /\ batch_seq = 0
  /\ calls = 0
  /\ run_log = <<>>
  /\ snapshots = <<>>

\* one process calls the pipelines one after the other
Init ==
  /\ InitStore
  /\ InitCleaner
  /\ InitLocal
  /\ faults = MaxFaults
  /\ coordinates \in CoordLists
  /\ pc = [p \in Procs |-> IF p = 1 THEN "idle" ELSE "off"]


(***************************************************************************)
(* Starting a call.                                                        *)
(***************************************************************************)
\* main(): run_soil_pipeline, run_weather_pipeline or run_crop_pipeline
StartDomain(p, kind) ==
  /\ pc[p] = "idle"
  /\ calls < MaxRuns
  /\ calls' = calls + 1
  /\ pc' = [pc EXCEPT ![p] = "init"]
  /\ pipeline' = [pipeline EXCEPT ![p] = kind]
  /\ UNCHANGED <<store, audit, idem, cleaner, env, faults, batch_seq, in_full, batch_id,
                 extracted, observed, locations, loc_idx, location_map, item_idx, records,
                 total_loaded, exc, faulted, results, full_batches, run_log, snapshots>>

\* run_full_pipeline: phase 1 is the soil pipeline
run_full_pipeline(p) ==
  /\ pc[p] = "idle"
  /\ calls < MaxRuns
  /\ calls' = calls + 1
  /\ pc' = [pc EXCEPT ![p] = "init"]
  /\ pipeline' = [pipeline EXCEPT ![p] = "soil"]
  /\ in_full' = [in_full EXCEPT ![p] = TRUE]
  /\ results' = [results EXCEPT ![p] = NoResults]
  /\ UNCHANGED <<store, audit, idem, cleaner, env, faults, batch_seq, batch_id,
                 extracted, observed, locations, loc_idx, location_map, item_idx, records,
                 total_loaded, exc, faulted, full_batches, run_log, snapshots>>

\* run_weather_pipeline builds a location record for every coordinate it
\* was given, before any validation
WeatherLocations(coords) ==
  [i \in 1..Len(coords) |-> LocationRecord(coords[i][1], coords[i][2])]

\* the first step of each pipeline inside its try block; load_locations
\* returns {} at once for an empty list, and the weather loop then has
\* nothing to iterate over
FirstStep(kind) ==
  CASE kind = "soil" -> "soil_extract"
    [] kind = "weather" -> IF coordinates = <<>> THEN "audit" ELSE "lookup"
    [] OTHER -> "crop_extract"

\* logger.start_batch and _init_audit, before the try block: a failing
\* INSERT leaves no audit row and the exception leaves the pipeline call
init_audit(p) ==
  /\ pc[p] = "init"
  /\ batch_seq' = batch_seq + 1
  /\ snapshots' = IF snapshots = <<>> THEN <<Warehouse>>
                  ELSE <<snapshots[Len(snapshots)], Warehouse>>
  /\ \/ /\ etl_audit_log' = (batch_seq' :> NewAuditRow(AuditName(pipeline[p]), today))
                               @@ etl_audit_log
        /\ audit_updates' = (batch_seq' :> 0) @@ audit_updates
        /\ batch_id' = [batch_id EXCEPT ![p] = batch_seq']
        /\ pc' = [pc EXCEPT ![p] = FirstStep(pipeline[p])]
        /\ locations' = [locations EXCEPT ![p] =
               IF pipeline[p] = "weather" THEN WeatherLocations(coordinates) ELSE <<>>]
        /\ loc_idx' = [loc_idx EXCEPT ![p] = 1]
        /\ item_idx' = [item_idx EXCEPT ![p] = 1]
        /\ UNCHANGED <<store, idem, cleaner, env, faults, calls, pipeline, in_full,
                       extracted, observed, location_map, records,
                       total_loaded, exc, faulted, results, full_batches, run_log>>
     \/ /\ Fault
        /\ Finish(p, "raised", NullCount, StoreError, TRUE)
        /\ UNCHANGED <<store, audit, idem, cleaner, env, calls>>


(***************************************************************************)
(* The soil pipeline.                                                      *)
(***************************************************************************)
\* the coordinates of the list that pass GeoValidator.validate_coordinates
ValidIndices(coords) ==
  {i \in 1..Len(coords) : validate_coordinates(coords[i][1], coords[i][2]) = "ok"}

\* run_soil_pipeline: one location record per extracted SoilData
SoilLocations(sds) ==
  [i \in 1..Len(sds) |-> LocationRecord(sds[i].latitude, sds[i].longitude)]

\* a loop body that transforms the SoilData with or without a key
SoilRecordUnfiltered(sd, map, day) ==
  <<transform_soil(sd,
      MapGet(map, generate_location_hash(sd.latitude, sd.longitude)), day)>>

\* run_soil_pipeline, the body of the loop over soil_data: what it appends
\* to soil_records, the record of a SoilData whose hash has a key
SoilRecord(sd, map, day) ==
  LET key == MapGet(map, generate_location_hash(sd.latitude, sd.longitude))
  IN IF key # NoKey THEN <<transform_soil(sd, key, day)>> ELSE <<>>

\* extractor.extract has returned `sds`; with nothing extracted the pipeline
\* calls self._complete_audit, which ETLPipeline does not define
SoilExtracted(p, sds) ==
  IF sds = <<>>
  THEN /\ Raise(p, "AttributeError: _complete_audit")
       /\ UNCHANGED <<locations, loc_idx>>
  ELSE /\ pc' = [pc EXCEPT ![p] = "lookup"]
       /\ locations' = [locations EXCEPT ![p] = SoilLocations(sds)]
       /\ loc_idx' = [loc_idx EXCEPT ![p] = 1]
       /\ UNCHANGED exc

\* the loop of extract goes to its next coordinate with the results `sds`,
\* or it has ended and extract returns them
NextSoilCoordinate(p, sds) ==
  /\ extracted' = [extracted EXCEPT ![p] = sds]
  /\ IF item_idx[p] < Len(coordinates)
     THEN /\ item_idx' = [item_idx EXCEPT ![p] = item_idx[p] + 1]
          /\ UNCHANGED <<pc, exc, locations, loc_idx>>
     ELSE /\ SoilExtracted(p, sds)
          /\ UNCHANGED item_idx

\* extractor.extract(coordinates), one coordinate per step: an invalid
\* coordinate is skipped without a request, a coordinate whose request
\* raises is skipped, the reply of any other is parsed and appended; the
\* requests of one call are separated by the waits of _rate_limit and of
\* the retries
soil_extract(p) ==
  /\ pc[p] = "soil_extract"
  /\ IF coordinates = <<>>
     THEN /\ NextSoilCoordinate(p, <<>>)
          /\ UNCHANGED <<faults, faulted, observed>>
     ELSE LET c == coordinates[item_idx[p]]
              valid == validate_coordinates(c[1], c[2]) = "ok"
          IN \/ /\ ~valid
                /\ NextSoilCoordinate(p, extracted[p])
                /\ UNCHANGED <<faults, faulted, observed>>
             \/ /\ valid
                /\ ObserveReply(p, item_idx[p])
                /\ NextSoilCoordinate(p, Append(extracted[p], SoilData(c, source_version)))
                /\ UNCHANGED <<faults, faulted>>
             \/ /\ valid
                /\ Inject(p, "soil_request")
                /\ NextSoilCoordinate(p, extracted[p])
                /\ UNCHANGED observed
  /\ UNCHANGED <<store, audit, idem, cleaner, env, batch_seq, calls, pipeline, in_full, batch_id,
                 location_map, records, total_loaded, results,
                 full_batches, run_log, snapshots>>

(***************************************************************************)
(* load_locations, one store call per step.                                *)
(***************************************************************************)
\* the step after load_locations returned `map`
AfterLocations(p, map) ==
  /\ pc' = [pc EXCEPT ![p] =
       IF pipeline[p] = "soil" THEN "soil_transform" ELSE "weather_extract"]
  /\ item_idx' = [item_idx EXCEPT ![p] = 1]
  /\ UNCHANGED records

\* the loop goes to its next record, or load_locations returns
NextLocation(p, map) ==
  /\ location_map' = [location_map EXCEPT ![p] = map]
  /\ IF loc_idx[p] < Len(locations[p])
     THEN /\ pc' = [pc EXCEPT ![p] = "lookup"]
          /\ loc_idx' = [loc_idx EXCEPT ![p] = loc_idx[p] + 1]
          /\ UNCHANGED <<records, item_idx>>
     ELSE /\ AfterLocations(p, map)
          /\ UNCHANGED loc_idx

\* the lookup of load_locations: fetch_one is outside the try block, so a
\* failing SELECT leaves load_locations and reaches the pipeline's handler
load_locations_lookup(p) ==
  /\ pc[p] = "lookup"
  /\ LET loc == locations[p][loc_idx[p]]
         found == CurrentRows(dim_location, loc.location_hash)
     IN \/ /\ found # {}
           /\ \E r \in found :
                NextLocation(p, (loc.location_hash :> r.location_key) @@ location_map[p])
           /\ UNCHANGED <<exc, faults, faulted>>
        \/ /\ found = {}
           /\ pc' = [pc EXCEPT ![p] = "insert"]
           /\ UNCHANGED <<exc, faults, faulted, location_map, loc_idx, records, item_idx>>
        \/ /\ Inject(p, "lookup")
           /\ Raise(p, StoreError)
           /\ UNCHANGED <<location_map, loc_idx, records, item_idx>>
  /\ UNCHANGED <<store, audit, idem, cleaner, env, batch_seq, calls, pipeline, in_full, batch_id,
                 extracted, observed, locations, total_loaded, results, full_batches, run_log,
                 snapshots>>

\* the insert of load_locations: a failing INSERT is caught and logged,
\* the record gets no entry in the map
load_locations_insert(p) ==
  /\ pc[p] = "insert"
  /\ LET loc == locations[p][loc_idx[p]]
     IN \/ /\ location_seq' = location_seq + 1
           /\ dim_location' = InsertLocation(dim_location, loc, location_seq')
           /\ NextLocation(p, (loc.location_hash :> location_seq') @@ location_map[p])
           /\ UNCHANGED <<faults, faulted>>
        \/ /\ Inject(p, "insert")
           /\ NextLocation(p, location_map[p])
           /\ UNCHANGED <<dim_location, location_seq>>
  /\ UNCHANGED <<dim_soil, fact_weather, dim_crop, audit, idem, cleaner, env, batch_seq, calls,
                 pipeline, in_full, batch_id, extracted, observed, locations, total_loaded, exc,
                 results, full_batches, run_log, snapshots>>

\* the loop over soil_data, one SoilData per step: transform_soil reads the
\* clock for the extraction_date of every record it builds
soil_transform(p) ==
  /\ pc[p] = "soil_transform"
  /\ LET rs == SoilRecord(extracted[p][item_idx[p]], location_map[p], today)
     IN /\ records' = [records EXCEPT ![p] = records[p] \o rs]
        /\ IF rs # <<>> THEN ObserveDay(p) ELSE UNCHANGED observed
  /\ IF item_idx[p] < Len(extracted[p])
     THEN /\ item_idx' = [item_idx EXCEPT ![p] = item_idx[p] + 1]
          /\ UNCHANGED pc
     ELSE /\ pc' = [pc EXCEPT ![p] = "soil_load"]
          /\ UNCHANGED item_idx
  /\ UNCHANGED <<store, audit, idem, cleaner, env, faults, batch_seq, calls, pipeline,
                 in_full, batch_id, extracted, locations, loc_idx, location_map,
                 total_loaded, exc, faulted, results, full_batches, run_log, snapshots>>

\* load_soil_data and the assignment of its count; an empty list returns 0
\* without a store call, a failing upsert is caught and returns 0
load_soil_data(p) ==
  /\ pc[p] = "soil_load"
  /\ LET rs == records[p]
     IN \/ /\ rs # <<>> /\ ~HasDuplicateSoilKeys(rs)
           /\ dim_soil' = UpsertSoil(dim_soil, rs)
           /\ total_loaded' = [total_loaded EXCEPT ![p] = Len(rs)]
           /\ UNCHANGED <<faults, faulted>>
        \/ /\ rs = <<>> \/ HasDuplicateSoilKeys(rs)
           /\ total_loaded' = [total_loaded EXCEPT ![p] = 0]
           /\ UNCHANGED <<dim_soil, faults, faulted>>
        \/ /\ rs # <<>>
           /\ Inject(p, "soil_upsert")
           /\ total_loaded' = [total_loaded EXCEPT ![p] = 0]
           /\ UNCHANGED dim_soil
  /\ pc' = [pc EXCEPT ![p] = "audit"]
  /\ UNCHANGED <<dim_location, location_seq, fact_weather, dim_crop, audit, idem, cleaner, env,
                 batch_seq, calls, pipeline, in_full, batch_id, extracted, observed, locations,
                 loc_idx, location_map, item_idx, records, exc, results,
                 full_batches, run_log, snapshots>>


(***************************************************************************)
(* The weather pipeline: one coordinate per iteration.                     *)
(***************************************************************************)
\* the reply of the archive API for one coordinate: one record per day
WeatherReply(c, v) == [d \in 1..NumDates |-> WeatherData(c, d, v)]

\* the list run_weather_pipeline hands to load_weather_data, which stamps
\* its batch id on every record
WeatherRecords(wds, key, b) ==
  [i \in 1..Len(wds) |->
     [batch_id |-> b] @@ transform_weather(wds[i], key)]

\* the loop goes to the next coordinate, or ends
NextCoordinate(p) ==
  IF item_idx[p] < Len(coordinates)
  THEN /\ pc' = [pc EXCEPT ![p] = "weather_extract"]
       /\ item_idx' = [item_idx EXCEPT ![p] = item_idx[p] + 1]
  ELSE /\ pc' = [pc EXCEPT ![p] = "audit"]
       /\ UNCHANGED item_idx

\* extract_historical, then location_map.get and transform_weather, one
\* coordinate per step; the reply is what the archive serves at the moment
\* of the request: an invalid coordinate raises ValueError, a failing request raises, a
\* coordinate without a key is skipped, a malformed date raises in
\* transform_weather
weather_extract(p) ==
  /\ pc[p] = "weather_extract"
  /\ LET c == coordinates[item_idx[p]]
         valid == validate_coordinates(c[1], c[2])
         key == MapGet(location_map[p], generate_location_hash(c[1], c[2]))
     IN \/ /\ valid # "ok"
           /\ Raise(p, valid)
           /\ UNCHANGED <<faults, faulted, item_idx, records, observed>>
        \/ /\ valid = "ok"
           /\ Inject(p, "weather_request")
           /\ Raise(p, "RequestException")
           /\ UNCHANGED <<item_idx, records, observed>>
        \/ /\ valid = "ok" /\ key = NoKey
           /\ ObserveReply(p, item_idx[p])
           /\ NextCoordinate(p)
           /\ UNCHANGED <<faults, faulted, exc, records>>
        \/ /\ valid = "ok" /\ key # NoKey
           /\ Inject(p, "bad_date")
           /\ ObserveReply(p, item_idx[p])
           /\ Raise(p, "ValueError: invalid literal for int()")
           /\ UNCHANGED <<item_idx, records>>
        \/ /\ valid = "ok" /\ key # NoKey
           /\ ObserveReply(p, item_idx[p])
           /\ pc' = [pc EXCEPT ![p] = "weather_load"]
           /\ records' = [records EXCEPT ![p] =
                WeatherRecords(WeatherReply(c, source_version), key, batch_id[p])]
           /\ UNCHANGED <<faults, faulted, exc, item_idx>>
  /\ UNCHANGED <<store, audit, idem, cleaner, env, batch_seq, calls, pipeline, in_full, batch_id,
                 extracted, locations, loc_idx, location_map, total_loaded, results,
                 full_batches, run_log, snapshots>>

\* load_weather_data and total_loaded += loaded
load_weather_data(p) ==
  /\ pc[p] = "weather_load"
  /\ LET rs == records[p]
     IN \/ /\ rs # <<>> /\ ~HasDuplicateWeatherKeys(rs)
           /\ fact_weather' = UpsertWeather(fact_weather, rs)
           /\ total_loaded' = [total_loaded EXCEPT ![p] = total_loaded[p] + Len(rs)]
           /\ UNCHANGED <<faults, faulted>>
        \/ /\ rs = <<>> \/ HasDuplicateWeatherKeys(rs)
           /\ UNCHANGED <<fact_weather, total_loaded, faults, faulted>>
        \/ /\ rs # <<>>
           /\ Inject(p, "weather_upsert")
           /\ UNCHANGED <<fact_weather, total_loaded>>
  /\ NextCoordinate(p)
  /\ records' = [records EXCEPT ![p] = <<>>]
  /\ UNCHANGED <<dim_location, location_seq, dim_soil, dim_crop, audit, idem, cleaner, env,
                 batch_seq, calls, pipeline, in_full, batch_id, extracted, observed, locations,
                 loc_idx, location_map, exc, results, full_batches, run_log, snapshots>>

(***************************************************************************)
(* The crop pipeline.                                                      *)
(***************************************************************************)
\* scrape_fao_crop_profile: the CropRequirementSource of crop n when the
\* page serves version v
CropSource(n, v) == [crop_name |-> n, raw_text |-> v]

\* the loop of scrape_multiple_crops goes to its next crop with the results
\* `srcs`, or it has ended; batch_extract then extracts from every source,
\* and with no source there is nothing to transform
NextCrop(p, srcs) ==
  /\ extracted' = [extracted EXCEPT ![p] = srcs]
  /\ IF item_idx[p] < Len(CropList)
     THEN /\ item_idx' = [item_idx EXCEPT ![p] = item_idx[p] + 1]
          /\ UNCHANGED pc
     ELSE /\ pc' = [pc EXCEPT ![p] = IF srcs = <<>> THEN "crop_load" ELSE "crop_transform"]
          /\ item_idx' = [item_idx EXCEPT ![p] = 1]

\* scraper.scrape_multiple_crops(crop_list), one page per step: a crop
\* whose page cannot be fetched yields no source, a page that cannot be
\* parsed raises; the requests of one call are separated by the waits of
\* _respectful_request
crop_extract(p) ==
  /\ pc[p] = "crop_extract"
  /\ \/ /\ ObserveReply(p, item_idx[p])
        /\ NextCrop(p, Append(extracted[p],
                              CropSource(CropList[item_idx[p]], source_version)))
        /\ UNCHANGED <<faults, faulted, exc>>
     \/ /\ Inject(p, "crop_page")
        /\ NextCrop(p, extracted[p])
        /\ UNCHANGED <<exc, observed>>
     \/ /\ Inject(p, "crop_extract")
        /\ Raise(p, "Exception: crop extraction")
        /\ UNCHANGED <<extracted, item_idx, observed>>
  /\ UNCHANGED <<store, audit, idem, cleaner, env, batch_seq, calls, pipeline, in_full, batch_id,
                 locations, loc_idx, location_map, records, total_loaded,
                 results, full_batches, run_log, snapshots>>

\* the list comprehension over extracted_reqs, one record per step:
\* transform_crop_requirements reads the clock for the extraction_date of
\* every record
crop_transform(p) ==
  /\ pc[p] = "crop_transform"
  /\ LET src == extracted[p][item_idx[p]]
     IN records' = [records EXCEPT ![p] =
          Append(records[p], transform_crop_requirements(src.crop_name, src.raw_text, today))]
  /\ ObserveDay(p)
  /\ IF item_idx[p] < Len(extracted[p])
     THEN /\ item_idx' = [item_idx EXCEPT ![p] = item_idx[p] + 1]
          /\ UNCHANGED pc
     ELSE /\ pc' = [pc EXCEPT ![p] = "crop_load"]
          /\ UNCHANGED item_idx
  /\ UNCHANGED <<store, audit, idem, cleaner, env, faults, batch_seq, calls, pipeline,
                 in_full, batch_id, extracted, locations, loc_idx, location_map,
                 total_loaded, exc, faulted, results, full_batches, run_log, snapshots>>

\* load_crop_requirements
load_crop_requirements(p) ==
  /\ pc[p] = "crop_load"
  /\ LET rs == records[p]
     IN \/ /\ rs # <<>> /\ ~HasDuplicateCropKeys(rs)
           /\ dim_crop' = UpsertCrop(dim_crop, rs)
           /\ total_loaded' = [total_loaded EXCEPT ![p] = Len(rs)]
           /\ UNCHANGED <<faults, faulted>>
        \/ /\ rs = <<>> \/ HasDuplicateCropKeys(rs)
           /\ total_loaded' = [total_loaded EXCEPT ![p] = 0]
           /\ UNCHANGED <<dim_crop, faults, faulted>>
        \/ /\ rs # <<>>
           /\ Inject(p, "crop_upsert")
           /\ total_loaded' = [total_loaded EXCEPT ![p] = 0]
           /\ UNCHANGED dim_crop
  /\ pc' = [pc EXCEPT ![p] = "audit"]
  /\ UNCHANGED <<dim_location, location_seq, dim_soil, fact_weather, audit, idem, cleaner, env,
                 batch_seq, calls, pipeline, in_full, batch_id, extracted, observed, locations,
                 loc_idx, location_map, item_idx, records, exc, results,
                 full_batches, run_log, snapshots>>

(***************************************************************************)
(* Completion of the audit row.                                            *)
(***************************************************************************)
\* loader.audit_completion("SUCCESS", loaded), inside the try block:
\* execute_batch opens a connection, which the store may refuse, and then
\* execute_values raises the ValueError of the placeholders; the UPDATE is
\* never sent, the row is left as it is and control reaches the handler; the
\* return that follows the call is never reached
audit_success(p) ==
  /\ pc[p] = "audit"
  /\ \/ /\ Raise(p, PlaceholderError)
        /\ UNCHANGED <<faults, faulted>>
     \/ /\ Inject(p, "audit_update")
        /\ Raise(p, StoreError)
  /\ UNCHANGED <<store, audit, idem, cleaner, env, batch_seq, calls, pipeline, in_full,
                 batch_id, extracted, observed, locations, loc_idx, location_map, item_idx,
                 records, total_loaded, results, full_batches, run_log, snapshots>>

\* the except handler: audit_completion("FAILED", 0, str(e)) raises in the
\* same way, out of the handler and in place of e; the `raise' that follows
\* the call is never reached and the row stays RUNNING
audit_failed(p) ==
  /\ pc[p] = "except"
  /\ \/ /\ Finish(p, "raised", NullCount, PlaceholderError, FALSE)
        /\ UNCHANGED faults
     \/ /\ Fault
        /\ Finish(p, "raised", NullCount, StoreError, TRUE)
  /\ UNCHANGED <<store, audit, idem, cleaner, env, batch_seq, calls, snapshots>>

(***************************************************************************)
(* The environment.                                                        *)
(***************************************************************************)
Running(p) == pc[p] \notin {"idle", "off"}

\* the process is killed between two steps; its audit row is left as it is
crash(p) ==
  /\ Running(p)
  /\ pc[p] # "init"
  /\ Fault
  /\ Finish(p, "crashed", NullCount, NoExc, TRUE)
  /\ UNCHANGED <<store, audit, idem, cleaner, env, batch_seq, calls, snapshots>>

\* midnight passes, between two calls or between two steps of a call
next_day ==
  /\ today < MaxDay
  /\ today' = today + 1
  /\ UNCHANGED <<store, audit, idem, cleaner, source_version, coordinates, faults, batch_seq,
                 calls, local, run_log, snapshots>>

\* the external sources publish other data, between two calls or between
\* two requests of a call
source_update ==
  /\ \E v \in Vals \ {source_version} : source_version' = v
  /\ UNCHANGED <<store, audit, idem, cleaner, today, coordinates, faults, batch_seq,
                 calls, local, run_log, snapshots>>

PipelineStep(p) ==
  \/ init_audit(p)
  \/ soil_extract(p)
  \/ load_locations_lookup(p)
  \/ load_locations_insert(p)
  \/ soil_transform(p)
  \/ load_soil_data(p)
  \/ weather_extract(p)
  \/ load_weather_data(p)
  \/ crop_extract(p)
  \/ crop_transform(p)
  \/ load_crop_requirements(p)
  \/ audit_success(p)
  \/ audit_failed(p)
  \/ crash(p)

Next ==
  \/ \E p \in Procs : \E kind \in {"soil", "weather", "crop"} : StartDomain(p, kind)
  \/ \E p \in Procs : run_full_pipeline(p)
  \/ \E p \in Procs : PipelineStep(p)
  \/ next_day
  \/ source_update

Spec == Init /\ [][Next]_vars

(***************************************************************************)
(* Two processes run the weather pipeline over the same coordinates at the *)
(* same time; the store and the sources do not fail, the clock and the     *)
(* sources move on as they do for one process.                             *)
(***************************************************************************)
InitConc ==
  /\ InitStore
  /\ InitCleaner
  /\ InitLocal
  /\ faults = 0
  /\ coordinates \in {<<CoordA>>, <<CoordA, CoordBad>>}
  /\ pc = [p \in Procs |-> "idle"]

ConcStep(p) ==
  \/ StartDomain(p, "weather")
  \/ init_audit(p)
  \/ load_locations_lookup(p)
  \/ load_locations_insert(p)
  \/ weather_extract(p)
  \/ load_weather_data(p)
  \/ audit_success(p)
  \/ audit_failed(p)

NextConc ==
  \/ \E p \in Procs : ConcStep(p)
  \/ next_day
  \/ source_update

SpecConc == InitConc /\ [][NextConc]_vars

(***************************************************************************)
(* check_idempotency, called by two processes.  The INSERT and the commit  *)
(* at the exit of the cursor block are two steps; between them the row is  *)
(* visible to no other transaction, and an INSERT of the same key_hash     *)
(* waits for the open transaction to end.                                  *)
(***************************************************************************)
\* entity_type and entity_key as lists of characters
IdemPairs ==
  {<<<<"s">>, <<"a">>>>, <<<<"w">>, <<"a">>>>,
   <<<<"s">>, <<"a", ":", "b">>>>, <<<<"s", ":", "a">>, <<"b">>>>}

\* sha256(f"{entity_type}:{entity_key}"): a function of the joined string
KeyHash(e) == e[1] \o <<":">> \o e[2]

IdemRow(e) == [key_hash |-> KeyHash(e), entity_type |-> e[1], entity_key |-> e[2]]

\* ON CONFLICT (key_hash): a committed row with the key_hash of `row`
IdemConflict(keys, row) == \E x \in keys : x.key_hash = row.key_hash

\* RETURNING key_hash yields a row exactly when the INSERT inserted one;
\* check_idempotency returns `result is not None`
IdemResult(keys, row) == ~IdemConflict(keys, row)

\* cur.execute of the INSERT ... ON CONFLICT DO NOTHING RETURNING
check_idempotency_execute(p) ==
  /\ ~idem_pending[p].active
  /\ Len(idem_calls) + Cardinality({q \in Procs : idem_pending[q].active}) < MaxIdemCalls
  /\ \E e \in IdemPairs :
       LET row == IdemRow(e)
       IN /\ \A q \in Procs \ {p} :
               ~(/\ idem_pending[q].active /\ idem_pending[q].inserted
                 /\ idem_pending[q].row.key_hash = row.key_hash)
          /\ idem_pending' = [idem_pending EXCEPT ![p] =
               [active |-> TRUE, row |-> row, inserted |-> IdemResult(idem_keys, row)]]
  /\ UNCHANGED <<store, audit, idem_keys, idem_calls, cleaner, env, faults, batch_seq, calls,
                 local, run_log, snapshots>>

\* the cursor block ends: conn.commit() and return, or the commit fails,
\* the transaction is rolled back and the call raises
check_idempotency_commit(p) ==
  /\ idem_pending[p].active
  /\ LET pd == idem_pending[p]
     IN \/ /\ idem_keys' = IF pd.inserted THEN idem_keys \cup {pd.row} ELSE idem_keys
           /\ idem_calls' = Append(idem_calls,
                [proc |-> p, row |-> pd.row, outcome |-> "returned",
                 result |-> pd.inserted])
           /\ UNCHANGED faults
        \/ /\ Fault
           /\ idem_calls' = Append(idem_calls,
                [proc |-> p, row |-> pd.row, outcome |-> "raised", result |-> FALSE])
           /\ UNCHANGED idem_keys
  /\ idem_pending' = [idem_pending EXCEPT ![p] = NoPending]
  /\ UNCHANGED <<store, audit, cleaner, env, batch_seq, calls, local, run_log, snapshots>>

InitIdem ==
  /\ InitStore
  /\ InitCleaner
  /\ InitLocal
  /\ faults = MaxFaults
  /\ coordinates = <<>>
  /\ pc = [p \in Procs |-> "off"]

NextIdem ==
  \/ \E p \in Procs : check_idempotency_execute(p)
  \/ \E p \in Procs : check_idempotency_commit(p)

SpecIdem == InitIdem /\ [][NextIdem]_vars


(***************************************************************************)
(* DataCleaner (etl/transform/cleaners.py).  A Python float is a record:   *)
(* the quotient n/d in thousandths, NaN, or None.  The arguments of a call *)
(* are decimals with three digits (d = 1).                                 *)
(***************************************************************************)
Milli == 1000

None == [t |-> "None", n |-> 0, d |-> 1]
NaN == [t |-> "nan", n |-> 0, d |-> 1]
Frac(n, d) == [t |-> "num", n |-> n, d |-> d]
Num(n) == Frac(n, 1)
\* the float of an int or of a literal of the source, 14 or 0.01
Lit(k) == Num(k * Milli)
Centi(k) == Num(k * 10)

\* a <= b and a < b of two floats: False as soon as one side is NaN
FloatLe(a, b) == a.t = "num" /\ b.t = "num" /\ a.n * b.d <= b.n * a.d
FloatLt(a, b) == a.t = "num" /\ b.t = "num" /\ a.n * b.d < b.n * a.d

\* the builtins min(a, b) and max(a, b): the first argument unless the
\* second is smaller (larger)
PyMin(a, b) == IF FloatLt(b, a) THEN b ELSE a
PyMax(a, b) == IF FloatLt(a, b) THEN b ELSE a

\* value - k, value * k and value / k
FloatSub(value, k) == Frac(value.n - k * Milli * value.d, value.d)
FloatMul(value, k) == Frac(value.n * k, value.d)
FloatDiv(value, k) == Frac(value.n, value.d * k)

\* 10^-ndigits in thousandths
Step(ndigits) == CASE ndigits = 1 -> 100 [] ndigits = 2 -> 10 [] ndigits = 3 -> 1

\* round(value, ndigits) rounds the binary double, so a decimal half way
\* between two results goes up when its double lies above it and down when
\* it lies below or is exact and the lower result is even.  DoubleAbove lists
\* the calls that are checked and hand round() such a double: the function
\* and its argument in thousandths (round(0.005, 2) is 0.01, round(7.125, 2)
\* is 7.12, round(14.15 / 10, 2) is 1.42, round(59.95, 1) is 60.0 and
\* round((60.17 - 32) * 5/9, 1) is 15.7).
DoubleAbove ==
  {<<"_clean_ph", 5>>, <<"_clean_ph", 14050>>, <<"_clean_ph", 14150>>,
   <<"_clean_temperature", 59950>>, <<"_clean_temperature", 60170>>}

Up(fn, value) == <<fn, value.n>> \in DoubleAbove

round(value, ndigits, up) ==
  LET s == value.d * Step(ndigits)
      q == value.n \div s
      r == value.n % s
  IN Num((IF 2 * r > s \/ (2 * r = s /\ up) THEN q + 1 ELSE q) * Step(ndigits))

\* DataCleaner.VALID_RANGES
VALID_RANGES ==
  [latitude |-> <<-90, 90>>, longitude |-> <<-180, 180>>,
   temperature_c |-> <<-50, 60>>, precipitation_mm |-> <<0, 2000>>,
   ph |-> <<0, 14>>, soil_moisture |-> <<0, 100>>, humidity |-> <<0, 100>>,
   wind_speed |-> <<0, 200>>]

_validate_range(field, value) ==
  IF value = None THEN FALSE
  ELSE /\ FloatLe(Lit(VALID_RANGES[field][1]), value)
       /\ FloatLe(value, Lit(VALID_RANGES[field][2]))

_clamp(value, min_val, max_val) ==
  IF value = None THEN None
  ELSE PyMax(Lit(min_val), PyMin(Lit(max_val), value))

\* a string that is not a number, 'n/a'
NonNumeric == [t |-> "text", n |-> 0, d |-> 1]
\* the comparison of a string or of None with a number raises
TypeError == [t |-> "TypeError", n |-> 0, d |-> 1]

\* _clean_ph without the division of a scaled value
_clean_ph_unscaled(value) ==
  IF value = None THEN None
  ELSE IF FloatLe(Lit(0), value) /\ FloatLe(value, Lit(14)) THEN round(value, 2, Up("_clean_ph", value))
  ELSE IF FloatLe(Lit(0), value) /\ FloatLe(value, Lit(140))
       THEN round(value, 2, Up("_clean_ph", value))
  ELSE None

_clean_ph(value) ==
  IF value = None THEN None
  ELSE IF FloatLe(Lit(0), value) /\ FloatLe(value, Lit(14))
       THEN round(value, 2, Up("_clean_ph", value))
  ELSE IF FloatLe(Lit(0), value) /\ FloatLe(value, Lit(140))
       THEN round(FloatDiv(value, 10), 2, Up("_clean_ph", value))
  ELSE None

\* _clean_temperature without the Fahrenheit conversion
_clean_temperature_celsius(value) ==
  IF value = None THEN None
  ELSE IF _validate_range("temperature_c", value)
       THEN round(value, 1, Up("_clean_temperature", value))
  ELSE None

\* _clean_temperature
_clean_temperature(value) ==
  IF value = None THEN None
  ELSE IF value = NonNumeric THEN TypeError
  ELSE LET celsius == IF FloatLt(Lit(60), value)
                      THEN FloatDiv(FloatMul(FloatSub(value, 32), 5), 9)
                      ELSE value
       IN IF _validate_range("temperature_c", celsius)
          THEN round(celsius, 1, Up("_clean_temperature", value))
          ELSE None

\* _clean_numeric: nan and what float() refuses become None, the rest has
\* three decimals
_clean_numeric(value) ==
  IF value = None THEN None
  ELSE IF value.t \in {"nan", "text"} THEN None
  ELSE round(value, 3, FALSE)

\* _normalize_water_requirement with the weekly band taken as daily
_normalize_water_requirement_daily(value) ==
  IF value = None THEN None
  ELSE IF FloatLe(Lit(1), value) /\ FloatLe(value, Lit(40))
       THEN round(value, 2, Up("_normalize_water_requirement", value))
  ELSE IF FloatLe(Centi(1), value) /\ FloatLt(value, Lit(1))
       THEN round(FloatMul(value, 10), 2, Up("_normalize_water_requirement", value))
  ELSE IF FloatLt(Lit(40), value) /\ FloatLe(value, Lit(350)) 
       THEN round(value, 2, Up("_normalize_water_requirement", value))
  ELSE None

_normalize_water_requirement(value) ==
  IF value = None THEN None
  ELSE IF FloatLe(Lit(1), value) /\ FloatLe(value, Lit(40))
       THEN round(value, 2, Up("_normalize_water_requirement", value))
  ELSE IF FloatLe(Centi(1), value) /\ FloatLt(value, Lit(1))
       THEN round(FloatMul(value, 10), 2, Up("_normalize_water_requirement", value))
  ELSE IF FloatLt(Lit(40), value) /\ FloatLe(value, Lit(350))
       THEN round(FloatDiv(value, 7), 2, Up("_normalize_water_requirement", value))
  ELSE None

\* name.strip().lower() and name.title() of the crop names of the calls
strip_lower == ("corn" :> "corn") @@ (" Corn " :> "corn") @@ ("sorghum" :> "sorghum")
title == ("corn" :> "Corn") @@ ("sorghum" :> "Sorghum")

\* _standardize_crop_name
name_map ==
  [maize |-> "Maize", corn |-> "Maize", wheat |-> "Wheat", rice |-> "Rice",
   paddy |-> "Rice", soybean |-> "Soybean", soy |-> "Soybean", soya |-> "Soybean",
   potato |-> "Potato", tomato |-> "Tomato", barley |-> "Barley",
   cotton |-> "Cotton"]

_standardize_crop_name(name) ==
  IF name = "" THEN "Unknown"
  ELSE LET n == strip_lower[name]
       IN IF n \in DOMAIN name_map THEN name_map[n] ELSE title[n]

\* pd.to_datetime(date_str).strftime('%Y-%m-%d') where the string is a date
to_datetime == ("2024-01-15" :> "2024-01-15") @@ ("2024/01/15" :> "2024-01-15")

Str(s) == [t |-> "str", s |-> s]
\* a key the cleaned dictionary does not have
Missing == [t |-> "missing"]
\* max(0, self._clean_numeric(x)) if x is not None else None
NonNegative(value) ==
  IF value = None THEN None
  ELSE IF _clean_numeric(value) = None THEN TypeError
  ELSE PyMax(Lit(0), _clean_numeric(value))

\* what a call returned or raised
Returned(value) == [done |-> TRUE, exc |-> "none", value |-> value]
Raised(e) == [done |-> TRUE, exc |-> e, value |-> None]
Result(value) == IF value = TypeError THEN Raised("TypeError") ELSE Returned(value)

\* clean_weather_data; `ordered' is the block that ensures temp_max >= temp_min;
\* validation_errors is the number of entries the call appends to
\* DataCleaner.validation_errors, which it has appended also when it raises
CleanWeather(data, ordered) ==
  LET date == IF data.date = "" THEN Missing
              ELSE IF data.date \in DOMAIN to_datetime THEN Str(to_datetime[data.date])
              ELSE None
      temp_max == _clean_temperature(data.temp_max)
      temp_min == _clean_temperature(data.temp_min)
      temp_mean == _clean_temperature(data.temp_mean)
      swap == /\ ordered
              /\ temp_max # None
              /\ temp_min # None
              /\ FloatLt(temp_max, temp_min)
      precipitation == NonNegative(data.precipitation)
      solar_radiation == NonNegative(data.solar_radiation)
      wind_speed == NonNegative(data.wind_speed)
      \* self.validation_errors.append(f"Invalid date: {date_str}")
      errors == IF date = None THEN 1 ELSE 0
  IN IF TypeError \in {temp_max, temp_min, temp_mean, precipitation, solar_radiation,
                      wind_speed}
     THEN [done |-> TRUE, exc |-> "TypeError", value |-> None,
           validation_errors |-> errors]
     ELSE Returned(
            [date |-> date,
             validation_errors |-> errors,
             temp_max |-> IF swap THEN temp_min ELSE temp_max,
             temp_min |-> IF swap THEN temp_max ELSE temp_min,
             temp_mean |-> temp_mean,
             precipitation |-> precipitation,
             evapotranspiration |-> _clean_numeric(data.evapotranspiration),
             solar_radiation |-> solar_radiation,
             humidity |-> _clamp(_clean_numeric(data.humidity), 0, 100),
             wind_speed |-> wind_speed])

\* clean_weather_data without the swap of an inverted pair
clean_weather_data_unordered(data) == CleanWeather(data, FALSE)

clean_weather_data(data) == CleanWeather(data, TRUE)

\* clean_crop_requirements
clean_crop_requirements(data) ==
  LET temp_both == data.temp_min_c # None /\ data.temp_max_c # None
      temp_swap == FloatLt(data.temp_max_c, data.temp_min_c)
      temp_min == IF temp_swap THEN data.temp_max_c ELSE data.temp_min_c
      temp_max == IF temp_swap THEN data.temp_min_c ELSE data.temp_max_c
      temp_valid == /\ _validate_range("temperature_c", temp_min)
                    /\ _validate_range("temperature_c", temp_max)
      ph_both == data.ph_min # None /\ data.ph_max # None
      ph_swap == FloatLt(data.ph_max, data.ph_min)
      ph_min == IF ph_swap THEN data.ph_max ELSE data.ph_min
      ph_max == IF ph_swap THEN data.ph_min ELSE data.ph_max
  IN Returned(
       [crop_name |-> _standardize_crop_name(data.crop_name),
        temp_min_c |-> IF ~temp_both THEN data.temp_min_c
                       ELSE IF temp_valid THEN round(temp_min, 1, Up("clean_crop_requirements", temp_min))
                       ELSE None,
        temp_max_c |-> IF ~temp_both THEN data.temp_max_c
                       ELSE IF temp_valid THEN round(temp_max, 1, Up("clean_crop_requirements", temp_max))
                       ELSE None,
        validation_errors |-> IF temp_both /\ ~temp_valid THEN 1 ELSE 0,
        water_mm_day |-> _normalize_water_requirement(data.water_mm_day),
        sunlight_hours |-> IF data.sunlight_hours = None THEN Missing
                           ELSE _clamp(data.sunlight_hours, 0, 24),
        ph_min |-> IF ph_both THEN _clamp(ph_min, 0, 14) ELSE data.ph_min,
        ph_max |-> IF ph_both THEN _clamp(ph_max, 0, 14) ELSE data.ph_max,
        confidence |-> _clamp(data.confidence, 0, 1)])

\* _clean_percentage
_clean_percentage(value) ==
  IF value = None THEN None
  ELSE IF FloatLe(Lit(0), value) /\ FloatLe(value, Lit(1))
       THEN round(FloatMul(value, 100), 2, FALSE)
  ELSE IF FloatLe(Lit(0), value) /\ FloatLe(value, Lit(100)) THEN round(value, 2, FALSE)
  ELSE None

\* bool(value) of a float or None
Truthy(value) == value # None /\ ~(value.t = "num" /\ value.n = 0)

\* the shares clay : sand : silt = 1 : 4 : 1, for which silt_pct + 2 * clay_pct
\* is 50 in exact arithmetic and 49.99999999999999 in doubles
SumBelow(clay, sand, silt) == clay > 0 /\ sand = 4 * clay /\ silt = clay

\* the decision table of _infer_texture on the shares of the total:
\* clay_pct >= k is written 100 * clay >= k * total
TextureClass(clay, sand, silt) ==
  LET total == clay + sand + silt
  IN IF 100 * sand >= 85 * total /\ 200 * silt + 300 * clay < 30 * total THEN "Sand"
     ELSE IF 100 * silt >= 80 * total /\ 100 * clay < 12 * total THEN "Silt"
     ELSE IF 100 * clay >= 40 * total THEN "Clay"
     ELSE IF /\ 100 * sand >= 52 * total
             /\ (100 * silt + 200 * clay < 50 * total \/ SumBelow(clay, sand, silt))
          THEN "Sandy Loam"
     ELSE IF 100 * silt >= 50 * total /\ 100 * clay < 27 * total THEN "Silt Loam"
     ELSE IF /\ 100 * clay >= 27 * total
             /\ 100 * clay < 40 * total
             /\ 100 * sand > 20 * total
          THEN "Clay Loam"
     ELSE "Loam"

\* _infer_texture
_infer_texture(clay, sand, silt) ==
  IF ~(Truthy(clay) /\ Truthy(sand) /\ Truthy(silt)) THEN None
  ELSE IF clay.n + sand.n + silt.n = 0 THEN None
  ELSE Str(TextureClass(clay.n, sand.n, silt.n))

\* the texture classes clean_soil_data accepts as given
TextureClasses ==
  {"Sand", "Sandy Loam", "Loam", "Silt Loam", "Silt", "Clay Loam", "Silty Clay Loam",
   "Sandy Clay Loam", "Sandy Clay", "Silty Clay", "Clay"}

\* clean_soil_data; round(float(lat), 6) leaves a decimal with three digits
\* as it is
clean_soil_data(data) ==
  IF ~(/\ _validate_range("latitude", data.latitude)
       /\ _validate_range("longitude", data.longitude))
  THEN Raised("ValueError: Invalid coordinates")
  ELSE LET clay == _clean_percentage(data.clay_0_5cm)
           sand == _clean_percentage(data.sand_0_5cm)
           silt == _clean_percentage(data.silt_0_5cm)
       IN Returned(
            [latitude |-> data.latitude, longitude |-> data.longitude,
             clay_content |-> clay, sand_content |-> sand, silt_content |-> silt,
             ph_level |-> _clean_ph(data.ph_0_5cm),
             organic_carbon |-> _clean_numeric(data.organic_carbon_0_5cm),
             bulk_density |-> _clean_numeric(data.bulk_density_0_5cm),
             water_capacity |-> _clean_numeric(data.water_capacity_0_5cm),
             texture |-> IF data.texture \in TextureClasses THEN Str(data.texture)
                         ELSE _infer_texture(clay, sand, silt)])

(***************************************************************************)
(* The requirement extractor of etl/transform/nlp_extractor.py.  A text is *)
(* given by what the regular expressions find in it: for every requirement *)
(* type and every pattern of its list, the matches re.finditer yields in   *)
(* the order of the text, each with its matched text group0 and the floats *)
(* of its captured groups; and whether it contains 'full sun' and          *)
(* 'partial shade'.                                                        *)
(***************************************************************************)
\* the number of patterns of each requirement type
PATTERNS ==
  [temperature_range |-> 4, water_requirement |-> 4, sunlight |-> 4, ph_range |-> 3]

\* re.finditer(pattern, text) of the p-th pattern of a type
finditer(text, type, p) == text[type][p]

\* smallest element of a nonempty set of numbers: the first one a loop meets
First(S) == CHOOSE x \in S : \A y \in S : x <= y

\* the plausibility filters
PlausibleTemperature(m) ==
  /\ FloatLe(Lit(-10), m.groups[1]) /\ FloatLe(m.groups[1], Lit(50))
  /\ FloatLe(Lit(-10), m.groups[2]) /\ FloatLe(m.groups[2], Lit(50))
PlausibleWater(m) == FloatLe(Num(100), m.groups[1]) /\ FloatLe(m.groups[1], Lit(50))
PlausibleSunlight(m) == FloatLe(Lit(0), m.groups[1]) /\ FloatLe(m.groups[1], Lit(24))
PlausiblePh(m) ==
  /\ FloatLe(Lit(3), m.groups[1]) /\ FloatLe(m.groups[1], Lit(9))
  /\ FloatLe(Lit(3), m.groups[2]) /\ FloatLe(m.groups[2], Lit(9))

\* the filter of a requirement type
Plausible(type, m) ==
  CASE type = "temperature_range" -> PlausibleTemperature(m)
    [] type = "water_requirement" -> PlausibleWater(m)
    [] type = "sunlight" -> PlausibleSunlight(m)
    [] type = "ph_range" -> PlausiblePh(m)

\* the patterns whose re.search match, the first match of finditer, passes
\* the filter
SearchHits(text, type) ==
  {p \in 1..PATTERNS[type] :
     /\ finditer(text, type, p) # <<>>
     /\ Plausible(type, finditer(text, type, p)[1])}

\* _extract_temperature: every match of every pattern is looked at
_extract_temperature(text) ==
  LET Hits(p) ==
        {i \in 1..Len(finditer(text, "temperature_range", p)) :
           PlausibleTemperature(finditer(text, "temperature_range", p)[i])}
      found == {p \in 1..PATTERNS.temperature_range : Hits(p) # {}}
  IN IF found = {} THEN <<None, None, <<>>>>
     ELSE LET match == finditer(text, "temperature_range", First(found))[First(Hits(First(found)))]
          IN <<match.groups[1], match.groups[2], <<match.group0>>>>

\* _extract_water: the first match of every pattern is looked at
_extract_water(text) ==
  LET found == SearchHits(text, "water_requirement")
  IN IF found = {} THEN <<None, None>>
     ELSE LET match == finditer(text, "water_requirement", First(found))[1]
          IN <<match.groups[1], Str(match.group0)>>

\* _extract_sunlight
_extract_sunlight(text) ==
  LET found == SearchHits(text, "sunlight")
  IN IF found # {}
     THEN LET match == finditer(text, "sunlight", First(found))[1]
          IN <<match.groups[1], Str(match.group0)>>
     ELSE IF text.full_sun THEN <<Lit(6), Str("full sun (inferred 6+ hours)")>>
     ELSE IF text.partial_shade THEN <<Lit(3), Str("partial shade (inferred 3-6 hours)")>>
     ELSE <<None, None>>

\* _extract_ph
_extract_ph(text) ==
  LET found == SearchHits(text, "ph_range")
  IN IF found = {} THEN <<None, None, <<>>>>
     ELSE LET match == finditer(text, "ph_range", First(found))[1]
          IN <<match.groups[1], match.groups[2], <<match.group0>>>>

\* _calculate_confidence without the cap at 1.0
_calculate_confidence_uncapped(has_temp, has_water, has_sun, has_ph, evidence_count) ==
  Num((IF has_temp THEN 300 ELSE 0) + (IF has_water THEN 300 ELSE 0)
      + (IF has_sun THEN 200 ELSE 0) + (IF has_ph THEN 200 ELSE 0)
      + PyMin(Num(evidence_count * 50), Num(200)).n)

\* _calculate_confidence, in thousandths
_calculate_confidence(has_temp, has_water, has_sun, has_ph, evidence_count) ==
  LET base_score ==
        (IF has_temp THEN 300 ELSE 0) + (IF has_water THEN 300 ELSE 0)
        + (IF has_sun THEN 200 ELSE 0) + (IF has_ph THEN 200 ELSE 0)
      evidence_bonus == PyMin(Num(evidence_count * 50), Num(200))
  IN PyMin(Num(base_score + evidence_bonus.n), Lit(1))

\* the list `evidence' that extract collects
collected_evidence(text) ==
  LET water_evidence == _extract_water(text)[2]
      sun_evidence == _extract_sunlight(text)[2]
  IN _extract_temperature(text)[3]
     \o (IF water_evidence # None THEN <<water_evidence.s>> ELSE <<>>)
     \o (IF sun_evidence # None THEN <<sun_evidence.s>> ELSE <<>>)
     \o _extract_ph(text)[3]

\* extract
extract(text, crop_name) ==
  LET temp == _extract_temperature(text)
      water == _extract_water(text)
      sun == _extract_sunlight(text)
      ph == _extract_ph(text)
      evidence == collected_evidence(text)
  IN [crop_name |-> crop_name,
      temp_min_c |-> temp[1], temp_max_c |-> temp[2],
      water_mm_day |-> water[1],
      sunlight_hours |-> sun[1],
      ph_min |-> ph[1], ph_max |-> ph[2],
      confidence_score |->
        _calculate_confidence(temp[1] # None, water[1] # None, sun[1] # None,
                              ph[1] # None, Len(evidence)),
      extraction_method |-> "hybrid_regex_spacy",
      raw_evidence |-> SubSeq(evidence, 1, IF Len(evidence) < 5 THEN Len(evidence) ELSE 5)]

(***************************************************************************)
(* The calls of the cleaning functions that are checked.                   *)
(***************************************************************************)
Floats(ns) == {None, NaN} \cup {Num(n) : n \in ns}

PhInputs ==
  Floats({-1000, -1, 0, 4, 5, 6500, 7000, 7120, 7123, 7125, 7128, 13999, 14000,
          14001, 14050, 14150, 55550, 65000, 65432, 139999, 140000, 140001, 200000})

WaterInputs ==
  Floats({-5000, 0, 5, 9, 10, 125, 500, 999, 1000, 5000, 5123, 5125, 40000, 40001,
          50000, 70000, 70035, 349999, 350000, 350001, 500000})

TemperatureInputs ==
  Floats({-61000, -60000, -50100, -50000, -49950, 0, 15000, 25000, 25250, 25260,
          59950, 60000, 60001, 60100, 60170, 61000, 77000, 139999, 140000, 140100, 200000})

WeatherTemps == Floats({-60000, 15000, 25000, 25250, 60000, 61000, 77000, 140100})

WeatherInputs ==
  {[date |-> dt, temp_max |-> tx, temp_min |-> tn, temp_mean |-> tm,
    precipitation |-> pr, evapotranspiration |-> Num(3200),
    solar_radiation |-> Num(18500), humidity |-> hu, wind_speed |-> Num(12000)] :
     dt \in {"2024-01-15", "not-a-date"}, tx \in WeatherTemps, tn \in WeatherTemps,
     tm \in {None, Num(20000), NonNumeric},
     pr \in {None, NaN, NonNumeric, Num(5000), Num(-1000)},
     hu \in {Num(65000), Num(120000)}}

CropTemps == Floats({-50100, 15000, 25000, 25250, 60000, 61000})
CropPhs == Floats({-1000, 5000, 5500, 7000, 14000, 15000})

CropInputs ==
  {[crop_name |-> "corn", temp_min_c |-> tn, temp_max_c |-> tx, water_mm_day |-> w,
    sunlight_hours |-> su, ph_min |-> pn, ph_max |-> px, confidence |-> Num(850)] :
     tn \in CropTemps, tx \in CropTemps, w \in {None, Num(50000)},
     su \in {None, Num(30000)}, pn \in CropPhs, px \in CropPhs}

\* coordinates in units of 10^-7 degree, around one grid point of 10^-6
HashLats ==
  {418781130, 418781126, 418781134, 418781136, 418781125, 418781135, 418781140,
   78125, -1, 0}
HashLons == {-876298000, 134050000}
HashInputs ==
  {[a |-> <<la, lo>>, b |-> <<lb, lp>>] :
     la \in HashLats, lo \in HashLons, lb \in HashLats, lp \in HashLons}

\* shares of clay, sand and silt in percent
Shares == {None} \cup {Lit(k) : k \in {0, 5, 10, 12, 15, 20, 27, 30, 40, 52, 60, 80, 85, 90}}
TextureInputs ==
  {[clay |-> c, sand |-> sa, silt |-> si] : c \in Shares, sa \in Shares, si \in Shares}

SoilShares == {None, NaN, Num(500), Lit(0), Lit(10), Lit(30), Lit(60), Lit(90), Lit(120)}
SoilInputs ==
  {[latitude |-> la, longitude |-> Lit(10), clay_0_5cm |-> c, sand_0_5cm |-> sa,
    silt_0_5cm |-> si, ph_0_5cm |-> Lit(65), organic_carbon_0_5cm |-> Num(12345),
    bulk_density_0_5cm |-> NaN, water_capacity_0_5cm |-> None, texture |-> tx] :
     la \in {None, Lit(45), Lit(91)}, c \in SoilShares, sa \in SoilShares,
     si \in SoilShares, tx \in {"", "Clay", "Gravel"}}

\* the matched text of the i-th match of the p-th pattern of a type
MatchedText == <<<<"1a", "1b">>, <<"2a", "2b">>, <<"3a", "3b">>, <<"4a", "4b">>>>
\* the matches of the p-th pattern of a type with the captured groups `groups'
MatchesOf(type, p, groups) ==
  [i \in 1..Len(groups) |-> [group0 |-> type \o " " \o MatchedText[p][i], groups |-> groups[i]]]
\* what one pattern finds: nothing, one match or two, of captured groups
\* that pass the filter (good, edge) or do not (bad)
Found(good, edge, bad) ==
  {<<>>, <<good>>, <<edge>>, <<bad>>, <<bad, good>>, <<bad, bad>>, <<good, bad>>}
FoundOf(type) ==
  CASE type = "temperature_range" ->
         Found(<<Lit(20), Lit(30)>>, <<Lit(50), Lit(50)>>, <<Lit(20), Lit(51)>>)
    [] type = "water_requirement" -> Found(<<Num(5500)>>, <<Num(100)>>, <<Num(50500)>>)
    [] type = "sunlight" -> Found(<<Lit(8)>>, <<Lit(24)>>, <<Lit(30)>>)
    [] type = "ph_range" ->
         Found(<<Num(6000), Num(7500)>>, <<Lit(3), Lit(9)>>, <<Num(1500), Num(2000)>>)
\* every assignment of found matches to the patterns of a type
PatternMatches(type) ==
  {[p \in 1..PATTERNS[type] |-> MatchesOf(type, p, f[p])] :
     f \in [1..PATTERNS[type] -> FoundOf(type)]}
\* a text without any match
NoText ==
  [temperature_range |-> [p \in 1..4 |-> <<>>], water_requirement |-> [p \in 1..4 |-> <<>>],
   sunlight |-> [p \in 1..4 |-> <<>>], ph_range |-> [p \in 1..3 |-> <<>>],
   full_sun |-> FALSE, partial_shade |-> FALSE]
\* the texts with matches of the patterns of one type
TextsOf(type) ==
  {[[NoText EXCEPT ![type] = ms] EXCEPT !.full_sun = fs, !.partial_shade = ps] :
     ms \in PatternMatches(type),
     fs \in IF type = "sunlight" THEN BOOLEAN ELSE {FALSE},
     ps \in IF type = "sunlight" THEN BOOLEAN ELSE {FALSE}}
\* the texts given to extract: the first pattern of a type finds at most one
\* match, the other patterns find none
Few(type) ==
  {[p \in 1..PATTERNS[type] |-> IF p = 1 THEN MatchesOf(type, p, f) ELSE <<>>] :
     f \in {g \in FoundOf(type) : Len(g) <= 1}}
ExtractTexts ==
  {[temperature_range |-> t, water_requirement |-> w, sunlight |-> s, ph_range |-> ph,
    full_sun |-> fs, partial_shade |-> ps] :
     t \in Few("temperature_range"), w \in Few("water_requirement"),
     s \in Few("sunlight"), ph \in Few("ph_range"), fs \in BOOLEAN, ps \in BOOLEAN}

\* the call of one function with its arguments
Call(fn, data) == cleaner_in = [fn |-> fn, data |-> data]

CleanerCalls ==
  \/ \E v \in PhInputs : Call("_clean_ph", v)
  \/ \E v \in WaterInputs : Call("_normalize_water_requirement", v)
  \/ \E v \in TemperatureInputs \cup {NonNumeric} : Call("_clean_temperature", v)
  \/ \E r \in WeatherInputs : Call("clean_weather_data", r)
  \/ \E r \in CropInputs : Call("clean_crop_requirements", r)
  \/ \E r \in HashInputs : Call("generate_location_hash", r)
  \/ \E r \in TextureInputs : Call("_infer_texture", r)
  \/ \E r \in SoilInputs : Call("clean_soil_data", r)
  \/ \E text \in TextsOf("temperature_range") : Call("_extract_temperature", text)
  \/ \E text \in TextsOf("water_requirement") : Call("_extract_water", text)
  \/ \E text \in TextsOf("sunlight") : Call("_extract_sunlight", text)
  \/ \E text \in TextsOf("ph_range") : Call("_extract_ph", text)
  \/ \E text \in ExtractTexts : Call("extract", text)

InitClean ==
  /\ InitStore
  /\ InitLocal
  /\ faults = 0
  /\ coordinates = <<>>
  /\ pc = [p \in Procs |-> "off"]
  /\ CleanerCalls
  /\ cleaner_out = NotRun

Apply(fn, result) ==
  /\ cleaner_in.fn = fn
  /\ ~cleaner_out.done
  /\ cleaner_out' = result
  /\ UNCHANGED <<cleaner_in, store, audit, idem, env, faults, batch_seq, calls, local,
                 run_log, snapshots>>

clean_ph_call == Apply("_clean_ph", Returned(_clean_ph(cleaner_in.data)))

normalize_water_requirement_call ==
  Apply("_normalize_water_requirement",
        Returned(_normalize_water_requirement(cleaner_in.data)))

clean_temperature_call ==
  Apply("_clean_temperature", Result(_clean_temperature(cleaner_in.data)))

clean_weather_data_call ==
  Apply("clean_weather_data", clean_weather_data(cleaner_in.data))

clean_crop_requirements_call ==
  Apply("clean_crop_requirements", clean_crop_requirements(cleaner_in.data))

\* two calls of generate_location_hash
generate_location_hash_call ==
  Apply("generate_location_hash",
        Returned(<<generate_location_hash(cleaner_in.data.a[1], cleaner_in.data.a[2]),
                   generate_location_hash(cleaner_in.data.b[1], cleaner_in.data.b[2])>>))

infer_texture_call ==
  Apply("_infer_texture",
        Returned(_infer_texture(cleaner_in.data.clay, cleaner_in.data.sand,
                                cleaner_in.data.silt)))

clean_soil_data_call == Apply("clean_soil_data", clean_soil_data(cleaner_in.data))

extract_temperature_call ==
  Apply("_extract_temperature", Returned(_extract_temperature(cleaner_in.data)))

extract_water_call == Apply("_extract_water", Returned(_extract_water(cleaner_in.data)))

extract_sunlight_call ==
  Apply("_extract_sunlight", Returned(_extract_sunlight(cleaner_in.data)))

extract_ph_call == Apply("_extract_ph", Returned(_extract_ph(cleaner_in.data)))

extract_call == Apply("extract", Returned(extract(cleaner_in.data, "rice")))

NextClean ==
  \/ clean_ph_call
  \/ normalize_water_requirement_call
  \/ clean_temperature_call
  \/ clean_weather_data_call
  \/ clean_crop_requirements_call
  \/ generate_location_hash_call
  \/ infer_texture_call
  \/ clean_soil_data_call
  \/ extract_temperature_call
  \/ extract_water_call
  \/ extract_sunlight_call
  \/ extract_ph_call
  \/ extract_call

SpecClean == InitClean /\ [][NextClean]_vars


(***************************************************************************)
(* Properties of the batch audit.                                          *)
(***************************************************************************)
\* the finished domain runs that returned or raised after writing their
\* RUNNING audit row
Completed ==
  {i \in 1..Len(run_log) :
     /\ run_log[i].kind # "full"
     /\ run_log[i].outcome \in {"returned", "raised"}
     /\ run_log[i].batch # 0}

Terminal(b) == etl_audit_log[b].status \in {"SUCCESS", "FAILED"}

\* C1 as stated: every run that wrote its RUNNING row and returned or
\* raised has left the row SUCCESS or FAILED.
C1_NeverLeftRunning ==
  \A i \in Completed : Terminal(run_log[i].batch)

\* C2 as stated: along every execution that returned or raised,
\* audit_completion has changed the batch's row exactly once.
C2_MutatedExactlyOnce ==
  \A i \in Completed : audit_updates[run_log[i].batch] = 1

\* what the extract, transform, location load and domain load steps raise
StepExceptions ==
  {"RequestException", "ValueError: Latitude out of range",
   "ValueError: Longitude out of range", "ValueError: invalid literal for int()",
   "Exception: crop extraction", StoreError}

\* the runs that returned or raised and in which a step raised
StepRaised ==
  {i \in Completed : run_log[i].cause \in StepExceptions}

\* C3 as stated: when a step raised, the row is FAILED with the exception's
\* message, the same exception reached the caller and no count was returned.
C3_FailedThenSameExceptionRaised ==
  \A i \in StepRaised :
    LET r == run_log[i]
        row == etl_audit_log[r.batch]
    IN /\ r.outcome = "raised"
       /\ row.status = "FAILED"
       /\ row.error_message = r.cause
       /\ r.raised = r.cause


(***************************************************************************)
(* Properties of the loads.                                                *)
(***************************************************************************)
\* load_weather_data has just returned the length of its list
WeatherLoadSucceeded(p) ==
  /\ pc[p] = "weather_load"
  /\ pc'[p] \in {"weather_extract", "audit"}
  /\ records[p] # <<>>
  /\ total_loaded'[p] = total_loaded[p] + Len(records[p])

\* C4 as stated: after a load_weather_data call there is exactly one row per
\* (date_key, location_key) of the call, and every measurement field and the
\* batch_id of that row hold the values of the call, also when the row
\* existed before.
C4_SecondCallValuesWin ==
  [][\A p \in Procs : WeatherLoadSucceeded(p) =>
       \A i \in 1..Len(records[p]) :
         \A x \in fact_weather' :
           WeatherKey(x) = WeatherKey(records[p][i]) => x = records[p][i]]_vars

\* C6: with one caller, dim_location never holds two current rows of one
\* location_hash nor two rows of one location_key, and every entry of a
\* load_locations mapping is the key of the row of its hash.
C6_OneRowPerHash ==
  /\ \A r1, r2 \in dim_location :
       (r1.location_hash = r2.location_hash \/ r1.location_key = r2.location_key)
         => r1 = r2
  /\ \A p \in Procs : \A h \in DOMAIN location_map[p] :
       \E r \in dim_location :
         r.location_hash = h /\ r.is_current /\ r.location_key = location_map[p][h]

\* a second call, whose list holds one hash twice, has mapped the hash to
\* the single row an earlier call inserted
C6_Witness ==
  /\ coordinates = <<CoordA, CoordA2>>
  /\ calls = 2
  /\ Cardinality(dim_location) = 1
  /\ \E p \in Procs :
       /\ pc[p] \in {"soil_transform", "weather_extract"}
       /\ Len(locations[p]) = 2
       /\ DOMAIN location_map[p] = {generate_location_hash(CoordA[1], CoordA[2])}

LocationKeys == {r.location_key : r \in dim_location}

\* C10: every dim_soil and fact_weather row carries a location_key of a
\* dim_location row; a list handed to load_soil_data or load_weather_data
\* holds only records whose hash load_locations mapped to a key; while a
\* pipeline is still inside load_locations it has written no weather row.
C10_LocationsBeforeRecords ==
  /\ \A r \in dim_soil \cup fact_weather : r.location_key \in LocationKeys
  /\ \A p \in Procs : \A i \in 1..Len(records[p]) :
       pipeline[p] \in {"soil", "weather"} =>
         /\ records[p][i].location_key # NoKey
         /\ \E h \in DOMAIN location_map[p] :
              location_map[p][h] = records[p][i].location_key
  /\ \A p \in Procs :
       (pipeline[p] = "weather" /\ pc[p] \in {"lookup", "insert"}) =>
         ~\E r \in fact_weather : r.batch_id = batch_id[p]

\* the soil pipeline extracted two locations, the insert of one failed, and
\* only the record of the other was loaded
C10_Witness ==
  \E p \in Procs :
    /\ pipeline[p] = "soil" /\ pc[p] = "audit"
    /\ Len(extracted[p]) = 2 /\ Len(records[p]) = 1
    /\ Cardinality(dim_soil) = 1
    /\ \A r \in dim_soil : r.location_key \in LocationKeys

(***************************************************************************)
(* Properties of run_full_pipeline.                                        *)
(***************************************************************************)
FullRuns == {i \in 1..Len(run_log) : run_log[i].kind = "full"}

PhaseOrder == <<"soil", "weather", "crop">>

\* the batches a run_full_pipeline call has created are, in order, a prefix
\* of soil, weather, crop
BatchesInOrder(bs) ==
  /\ Len(bs) <= 3
  /\ \A k \in 1..Len(bs) :
       /\ bs[k] \in DOMAIN etl_audit_log
       /\ etl_audit_log[bs[k]].pipeline_name = AuditName(PhaseOrder[k])
       /\ k > 1 => bs[k - 1] < bs[k]

\* a coordinate of the list is outside the valid ranges
HasInvalidCoordinate ==
  \E i \in 1..Len(coordinates) :
    validate_coordinates(coordinates[i][1], coordinates[i][2]) # "ok"

\* a run_full_pipeline call over a nonempty list of valid coordinates, in
\* which no source and no store operation failed
Undisturbed(i) ==
  /\ coordinates # <<>>
  /\ ~HasInvalidCoordinate
  /\ ~run_log[i - 1].faulted

\* C9: run_full_pipeline runs the soil, weather and crop pipelines in that
\* order: a phase is entered only when the batches of the phases before it
\* are SUCCESS; a call that raised created no batch after the one that
\* failed and raised that phase's exception; a call in which nothing failed
\* returns, and a call that returned holds the three counts its phases
\* returned.
C9_FullPipelineSequential ==
  /\ \A i \in FullRuns : Undisturbed(i) => run_log[i].outcome = "returned"
  /\ \A p \in Procs : in_full[p] =>
       /\ BatchesInOrder(full_batches[p])
       /\ \A k \in 1..Len(full_batches[p]) :
            etl_audit_log[full_batches[p][k]].status = "SUCCESS"
       /\ pipeline[p] = PhaseOrder[Len(full_batches[p]) + 1]
  /\ \A i \in FullRuns :
       LET r == run_log[i]
           n == Len(r.batches)
       IN /\ BatchesInOrder(r.batches)
          /\ \A k \in 1..(n - 1) : etl_audit_log[r.batches[k]].status = "SUCCESS"
          /\ r.outcome = "raised" =>
               /\ run_log[i - 1].outcome = "raised"
               /\ r.raised = run_log[i - 1].raised
               /\ IF run_log[i - 1].batch = 0
                    THEN /\ run_log[i - 1].kind = PhaseOrder[n + 1]
                         /\ \A k \in 1..n :
                              etl_audit_log[r.batches[k]].status = "SUCCESS"
                    ELSE /\ run_log[i - 1].kind = PhaseOrder[n]
                         /\ r.batches[n] = run_log[i - 1].batch
                         /\ etl_audit_log[r.batches[n]].status # "SUCCESS"
          /\ r.outcome = "returned" =>
               /\ n = 3
               /\ \A k \in 1..3 :
                    /\ run_log[i - 4 + k].kind = PhaseOrder[k]
                    /\ run_log[i - 4 + k].batch = r.batches[k]
                    /\ run_log[i - 4 + k].outcome = "returned"
               /\ r.res = [soil |-> run_log[i - 3].value,
                           weather |-> run_log[i - 2].value,
                           crops |-> run_log[i - 1].value]


(***************************************************************************)
(* A domain pipeline run from warehouse W to its end with no failure of    *)
(* the store or of a source, as one function of W: the reference against   *)
(* which a re-run is compared.                                             *)
(***************************************************************************)
\* load_locations over `locs`: the warehouse and the mapping it returns
RECURSIVE LoadLocations(_, _, _)
LoadLocations(W, locs, map) ==
  IF locs = <<>> THEN [w |-> W, map |-> map]
  ELSE LET loc == Head(locs)
           found == CurrentRows(W.dim_location, loc.location_hash)
       IN IF found # {}
          THEN LoadLocations(W, Tail(locs),
                 (loc.location_hash :> (CHOOSE r \in found : TRUE).location_key) @@ map)
          ELSE LET k == W.location_seq + 1
               IN LoadLocations(
                    [W EXCEPT !.location_seq = k,
                              !.dim_location = InsertLocation(@, loc, k)],
                    Tail(locs), (loc.location_hash :> k) @@ map)

\* the loop of run_weather_pipeline from coordinate i on, when the request
\* for coordinate i is answered with version replies[i]; it ends at the
\* first coordinate without a reply, whose extraction raises
RECURSIVE WeatherLoop(_, _, _, _, _, _)
WeatherLoop(W, coords, i, map, replies, b) ==
  IF i > Len(coords) \/ i \notin DOMAIN replies THEN W
  ELSE LET c == coords[i]
           key == MapGet(map, generate_location_hash(c[1], c[2]))
           rs == WeatherRecords(WeatherReply(c, replies[i]), key, b)
       IN IF key = NoKey THEN WeatherLoop(W, coords, i + 1, map, replies, b)
          ELSE WeatherLoop(
                 [W EXCEPT !.fact_weather =
                    IF rs = <<>> \/ HasDuplicateWeatherKeys(rs) THEN @
                    ELSE UpsertWeather(@, rs)],
                 coords, i + 1, map, replies, b)

\* extractor.extract when the request for coordinate i is answered with
\* version replies[i]
RECURSIVE SoilExtract(_, _, _)
SoilExtract(coords, replies, i) ==
  IF i > Len(coords) THEN <<>>
  ELSE (IF i \in DOMAIN replies THEN <<SoilData(coords[i], replies[i])>> ELSE <<>>)
       \o SoilExtract(coords, replies, i + 1)

\* the loop over soil_data when every transform reads the date `day`
RECURSIVE SoilRecords(_, _, _)
SoilRecords(sds, map, day) ==
  IF sds = <<>> THEN <<>>
  ELSE SoilRecord(Head(sds), map, day) \o SoilRecords(Tail(sds), map, day)

\* scrape_multiple_crops, batch_extract and the transform of every
\* extraction when page i serves version replies[i]
RECURSIVE CropRecords(_, _, _)
CropRecords(replies, day, i) ==
  IF i > Len(CropList) THEN <<>>
  ELSE (IF i \in DOMAIN replies
        THEN <<transform_crop_requirements(CropList[i], replies[i], day)>> ELSE <<>>)
       \o CropRecords(replies, day, i + 1)

CompleteSoilRun(W, coords, replies, day) ==
  LET sds == SoilExtract(coords, replies, 1)
      ll == LoadLocations(W, SoilLocations(sds), EmptyMap)
      rs == SoilRecords(sds, ll.map, day)
  IN IF sds = <<>> THEN W
     ELSE [ll.w EXCEPT !.dim_soil =
             IF rs = <<>> \/ HasDuplicateSoilKeys(rs) THEN @ ELSE UpsertSoil(@, rs)]

CompleteWeatherRun(W, coords, replies, b) ==
  LET ll == LoadLocations(W, WeatherLocations(coords), EmptyMap)
  IN WeatherLoop(ll.w, coords, 1, ll.map, replies, b)

CompleteCropRun(W, replies, day) ==
  LET rs == CropRecords(replies, day, 1)
  IN [W EXCEPT !.dim_crop =
        IF rs = <<>> \/ HasDuplicateCropKeys(rs) THEN @ ELSE UpsertCrop(@, rs)]

CompleteRun(W, kind, coords, replies, day, b) ==
  CASE kind = "soil" -> CompleteSoilRun(W, coords, replies, day)
    [] kind = "weather" -> CompleteWeatherRun(W, coords, replies, b)
    [] OTHER -> CompleteCropRun(W, replies, day)

\* the four tables with batch_id left out
WithoutBatch(W) ==
  [dim_location |-> W.dim_location,
   dim_soil |-> W.dim_soil,
   fact_weather |-> {[r EXCEPT !.batch_id = 0] : r \in W.fact_weather},
   n_weather |-> Cardinality(W.fact_weather),
   dim_crop |-> W.dim_crop]

\* the location_hash of the dim_location row with key k
HashOfKey(W, k) ==
  IF \E r \in W.dim_location : r.location_key = k
  THEN (CHOOSE r \in W.dim_location : r.location_key = k).location_hash
  ELSE <<>>

\* the four tables with batch_id left out and a location named by its
\* location_hash instead of its generated location_key
ByHash(W) ==
  [dim_location |-> {[r EXCEPT !.location_key = NoKey] : r \in W.dim_location},
   n_location |-> Cardinality(W.dim_location),
   dim_soil |-> {[r EXCEPT !.location_key = HashOfKey(W, @)] : r \in W.dim_soil},
   n_soil |-> Cardinality(W.dim_soil),
   fact_weather |-> {[r EXCEPT !.location_key = HashOfKey(W, @), !.batch_id = 0] :
                       r \in W.fact_weather},
   n_weather |-> Cardinality(W.fact_weather),
   dim_crop |-> W.dim_crop]

\* the two runs received the same reply for every coordinate or crop that
\* both requested
SameReplies(r1, r2) ==
  \A i \in DOMAIN r1.replies \cap DOMAIN r2.replies : r1.replies[i] = r2.replies[i]

\* nobody is running and the last two runs were the same domain pipeline,
\* called on its own, with the same extracted inputs, the second one reading
\* one date and getting through its loads to audit_completion("SUCCESS")
\* with no failure of the store or of a source
IsRerun ==
  /\ \A p \in Procs : ~Running(p)
  /\ Len(run_log) >= 2
  /\ Len(snapshots) = 2
  /\ LET r1 == run_log[Len(run_log) - 1]
         r2 == run_log[Len(run_log)]
     IN /\ r1.kind = r2.kind /\ r2.kind # "full"
        /\ SameReplies(r1, r2)
        /\ Cardinality(r2.days) <= 1
        /\ r2.cause = PlaceholderError /\ ~r2.faulted

\* the date the transforms of run r read
DayOf(r) == IF r.days = {} THEN today ELSE CHOOSE d \in r.days : TRUE

\* one run without failure from the warehouse the first run started in,
\* given the replies and the date of the second run
OneCompleteRun ==
  LET r2 == run_log[Len(run_log)]
  IN CompleteRun(snapshots[1], r2.kind, coordinates, r2.replies, DayOf(r2), 0)

DistinctHashes(coords) ==
  \A i, j \in 1..Len(coords) :
    i < j => generate_location_hash(coords[i][1], coords[i][2])
               # generate_location_hash(coords[j][1], coords[j][2])

CurrentLocation(p) == locations[p][loc_idx[p]]

\* the insert of load_locations by p, after its lookup found no row
InsertStep(p) == pc[p] = "insert" /\ pc'[p] # "insert"

\* C7: under concurrent weather pipelines the insert that follows a lookup
\* which found nothing adds a row with a new location_key also when another
\* batch has inserted the same location_hash since, the mapping of each
\* batch holds the key of its own insert, and every fact_weather row of a
\* running batch carries a key of that batch's mapping.
C7_RaceMakesDuplicateLocations ==
  /\ [][\A p \in Procs : InsertStep(p) =>
          LET h == CurrentLocation(p).location_hash
          IN /\ Cardinality(CurrentRows(dim_location', h))
                  = Cardinality(CurrentRows(dim_location, h)) + 1
             /\ location_map'[p][h] = location_seq'
             /\ \A r \in dim_location : r.location_key # location_seq']_vars
  /\ [](\A p \in Procs : Running(p) =>
          \A r \in fact_weather : r.batch_id = batch_id[p] =>
            \E h \in DOMAIN location_map[p] : location_map[p][h] = r.location_key)

\* both lookups found nothing, both inserts were performed, and the weather
\* rows of the two batches carry different location keys
C7_Witness ==
  LET h == generate_location_hash(CoordA[1], CoordA[2])
  IN /\ \E r1, r2 \in dim_location :
          /\ r1.location_hash = h /\ r2.location_hash = h
          /\ r1.location_key # r2.location_key
     /\ \E x, y \in fact_weather :
          /\ x.batch_id # y.batch_id
          /\ x.date_key = y.date_key
          /\ x.location_key # y.location_key

\* the finished calls for the pair e that returned a value
ReturnedCallsOf(e) ==
  {i \in 1..Len(idem_calls) :
     idem_calls[i].row = IdemRow(e) /\ idem_calls[i].outcome = "returned"}

\* C8 as stated, for the calls that returned: among the check_idempotency
\* calls of one (entity_type, entity_key), whatever the interleaving,
\* exactly one returned True and every other one False; a committed key is
\* never removed.  Calls that raised at the commit returned nothing and are
\* left aside.
C8_ExactlyOneTruePerPair ==
  /\ [](\A e \in IdemPairs :
          ReturnedCallsOf(e) # {} =>
            \E i \in ReturnedCallsOf(e) :
              /\ idem_calls[i].result
              /\ \A j \in ReturnedCallsOf(e) \ {i} : ~idem_calls[j].result)
  /\ [][idem_keys \subseteq idem_keys']_vars

(***************************************************************************)
(* Properties of failures inside the loader and the extractors.            *)
(***************************************************************************)
\* the store failures met inside a loader call
LoaderFailures == {"lookup", "insert", "soil_upsert", "weather_upsert", "crop_upsert"}

\* the load failures the loader catches itself
CaughtLoadFailures == {"insert", "soil_upsert", "weather_upsert", "crop_upsert"}

\* C11 as stated: in a run whose only failures were store failures inside
\* loader calls, none of them leaves the loader: the store's error does not
\* reach the pipeline.
C11_NoLoaderFailurePropagates ==
  \A i \in Completed :
    (run_log[i].failures # {} /\ run_log[i].failures \subseteq LoaderFailures)
      => run_log[i].cause # StoreError

\* C12 as stated: the audit row of a batch in which a load call failed
\* shows the failure when the run has ended: it is FAILED or it holds an
\* error_message, and it is not SUCCESS with a null error_message.
C12_LoadFailureVisibleInAudit ==
  \A i \in Completed :
    run_log[i].failures \cap CaughtLoadFailures # {} =>
      LET row == etl_audit_log[run_log[i].batch]
      IN /\ row.status = "FAILED" \/ row.error_message # NullMsg
         /\ ~(row.status = "SUCCESS" /\ row.error_message = NullMsg)

\* the soil and weather runs in which the retrieval of a coordinate failed
\* and nothing else did
RetrievalFailedRuns ==
  {i \in Completed :
     /\ run_log[i].kind \in {"soil", "weather"}
     /\ run_log[i].failures \subseteq {"soil_request", "weather_request"}
     /\ (run_log[i].failures # {} \/ HasInvalidCoordinate)}

\* C13 as stated: a soil or weather run in which the retrieval of a
\* coordinate failed returns its count and its batch ends SUCCESS with it.
C13_RetrievalFailureSkipsCoordinate ==
  \A i \in RetrievalFailedRuns :
    /\ run_log[i].outcome = "returned"
    /\ etl_audit_log[run_log[i].batch].status = "SUCCESS"
    /\ etl_audit_log[run_log[i].batch].records_processed = run_log[i].value

(***************************************************************************)
(* Properties of the upserts.                                              *)
(***************************************************************************)
\* load_soil_data has just returned the length of its list
SoilLoadSucceeded(p) ==
  /\ pc[p] = "soil_load" /\ pc'[p] = "audit"
  /\ records[p] # <<>>
  /\ total_loaded'[p] = Len(records[p])

\* C14: after load_soil_data every key of the call has exactly one row; a
\* row that existed has soil_texture, ph_level_0_5cm and metadata of the
\* record and every other column as before; a key that did not exist has
\* the record as its row; rows of other keys are as before.
C14_SoilUpsertPartialOverwrite ==
  [][\A p \in Procs : SoilLoadSucceeded(p) =>
       /\ \A i \in 1..Len(records[p]) :
            LET r == records[p][i]
                old == {x \in dim_soil : SoilKey(x) = SoilKey(r)}
                new == {x \in dim_soil' : SoilKey(x) = SoilKey(r)}
            IN /\ Cardinality(new) = 1
               /\ \A x \in old :
                    new = {[x EXCEPT !.soil_texture = r.soil_texture,
                                     !.ph_level_0_5cm = r.ph_level_0_5cm,
                                     !.metadata = r.metadata]}
               /\ old = {} => new = {r}
       /\ \A x \in dim_soil :
            (\A i \in 1..Len(records[p]) : SoilKey(x) # SoilKey(records[p][i]))
              => x \in dim_soil']_vars

\* a row was upserted a second time with other values: it holds the new
\* texture and the old clay content
C14_Witness ==
  /\ \E x \in dim_soil : x.soil_texture # x.clay_content_0_5cm
  /\ Cardinality(dim_soil) = 1
  /\ Len(run_log) = 2
  /\ run_log[2].kind = "soil" /\ run_log[2].cause = PlaceholderError /\ ~run_log[2].faulted

\* load_crop_requirements has just returned the length of its list
CropLoadSucceeded(p) ==
  /\ pc[p] = "crop_load" /\ pc'[p] = "audit"
  /\ records[p] # <<>>
  /\ total_loaded'[p] = Len(records[p])

\* C15 as stated: after load_crop_requirements the single row of each crop
\* of the call holds the record's numeric requirement fields, confidence,
\* extraction_date and source evidence.
C15_CropUpsertOverwritesAll ==
  [][\A p \in Procs : CropLoadSucceeded(p) =>
       \A i \in 1..Len(records[p]) :
         \A x \in dim_crop' :
           CropKey(x) = CropKey(records[p][i]) => x = records[p][i]]_vars

\* C17 as stated: every fact_weather row has temp_max_c and temp_min_c
\* within [-50, 60] and temp_max_c >= temp_min_c.
C17_WeatherRowsNormalized ==
  \A r \in fact_weather :
    /\ -50 <= r.temp_max_c /\ r.temp_max_c <= 60
    /\ -50 <= r.temp_min_c /\ r.temp_min_c <= 60
    /\ r.temp_max_c >= r.temp_min_c


(***************************************************************************)
(* Properties of the cleaning functions, checked under SpecClean.          *)
(***************************************************************************)
\* the call of fn has returned
CleanerReturned(fn) ==
  /\ cleaner_in.fn = fn
  /\ cleaner_out.done
  /\ cleaner_out.exc = "none"

\* C16: clean_weather_data swaps the cleaned temp_max and temp_min when both
\* are non-null and temp_max < temp_min and leaves them in place otherwise:
\* an output with both values has temp_max >= temp_min, and the output pair
\* is the cleaned input pair in one order or the other.
C16_WeatherPairSwappedNotDropped ==
  CleanerReturned("clean_weather_data") =>
    LET cmax == _clean_temperature(cleaner_in.data.temp_max)
        cmin == _clean_temperature(cleaner_in.data.temp_min)
        out == cleaner_out.value
    IN /\ (out.temp_max # None /\ out.temp_min # None) =>
            FloatLe(out.temp_min, out.temp_max)
       /\ IF cmax # None /\ cmin # None /\ FloatLt(cmax, cmin)
          THEN out.temp_max = cmin /\ out.temp_min = cmax
          ELSE out.temp_max = cmax /\ out.temp_min = cmin

\* temp_max = 15 and temp_min = 25 came back as (25, 15)
C16_Witness ==
  /\ CleanerReturned("clean_weather_data")
  /\ cleaner_in.data.temp_max = Num(15000)
  /\ cleaner_in.data.temp_min = Num(25000)
  /\ cleaner_out.value.temp_max = Num(25000)
  /\ cleaner_out.value.temp_min = Num(15000)

\* C18: in every output of clean_crop_requirements, temp_min_c <= temp_max_c
\* when both are non-null and ph_min <= ph_max when both are non-null.
C18_CropRangesOrdered ==
  CleanerReturned("clean_crop_requirements") =>
    LET out == cleaner_out.value
    IN /\ (out.temp_min_c # None /\ out.temp_max_c # None) =>
            FloatLe(out.temp_min_c, out.temp_max_c)
       /\ (out.ph_min # None /\ out.ph_max # None) =>
            FloatLe(out.ph_min, out.ph_max)

\* C19 as stated: clean_ph(v) is v itself on [0, 14], v / 10 itself on
\* (14, 140], None for every other v, and None for None.
C19_CleanPhExact ==
  CleanerReturned("_clean_ph") =>
    LET v == cleaner_in.data
        out == cleaner_out.value
    IN IF v = None THEN out = None
       ELSE IF FloatLe(Lit(0), v) /\ FloatLe(v, Lit(14)) THEN out = v
       ELSE IF FloatLt(Lit(14), v) /\ FloatLe(v, Lit(140))
            THEN out # None /\ out.n * 10 = v.n
       ELSE out = None

\* x is a decimal with two digits at most 0.005 away from num / den
RoundedTo2(x, num, den) ==
  /\ x.t = "num"
  /\ x.d = 1
  /\ x.n % 10 = 0
  /\ 2 * Abs(x.n * den - num) <= 10 * den

\* C19: clean_ph(v) is v rounded to two decimals on [0, 14], v / 10 rounded
\* to two decimals on (14, 140], None for every other v (negative, above
\* 140, NaN), and None for None.
C19_CleanPhRounded ==
  CleanerReturned("_clean_ph") =>
    LET v == cleaner_in.data
        out == cleaner_out.value
    IN IF v = None THEN out = None
       ELSE IF FloatLe(Lit(0), v) /\ FloatLe(v, Lit(14)) THEN RoundedTo2(out, v.n, 1)
       ELSE IF FloatLt(Lit(14), v) /\ FloatLe(v, Lit(140)) THEN RoundedTo2(out, v.n, 10)
       ELSE out = None

\* the scaled value 65.432 came back as 6.54
C19_Witness ==
  /\ CleanerReturned("_clean_ph")
  /\ cleaner_in.data = Num(65432)
  /\ cleaner_out.value = Num(6540)

\* C20 as stated: a water value in [1, 40] is returned unchanged, one in
\* [0.01, 1.0) as v * 10, one in (40, 350] as v / 7, and every other value
\* and None give None.
C20_WaterBandsExact ==
  CleanerReturned("_normalize_water_requirement") =>
    LET v == cleaner_in.data
        out == cleaner_out.value
    IN IF v = None THEN out = None
       ELSE IF FloatLe(Lit(1), v) /\ FloatLe(v, Lit(40)) THEN out = v
       ELSE IF FloatLe(Centi(1), v) /\ FloatLt(v, Lit(1))
            THEN out # None /\ out.n = v.n * 10
       ELSE IF FloatLt(Lit(40), v) /\ FloatLe(v, Lit(350))
            THEN out # None /\ out.n * 7 = v.n
       ELSE out = None

\* C20: by the first matching band a water value in [1, 40] is returned
\* rounded to two decimals, one in [0.01, 1.0) as v * 10 rounded to two
\* decimals, one in (40, 350] as v / 7 rounded to two decimals, and every
\* other value (below 0.01, above 350, negative, NaN) and None give None.
C20_WaterBandsRounded ==
  CleanerReturned("_normalize_water_requirement") =>
    LET v == cleaner_in.data
        out == cleaner_out.value
    IN IF v = None THEN out = None
       ELSE IF FloatLe(Lit(1), v) /\ FloatLe(v, Lit(40)) THEN RoundedTo2(out, v.n, 1)
       ELSE IF FloatLe(Centi(1), v) /\ FloatLt(v, Lit(1))
            THEN RoundedTo2(out, v.n * 10, 1)
       ELSE IF FloatLt(Lit(40), v) /\ FloatLe(v, Lit(350)) THEN RoundedTo2(out, v.n, 7)
       ELSE out = None

\* the weekly total 50 came back as 7.14 mm a day
C20_Witness ==
  /\ CleanerReturned("_normalize_water_requirement")
  /\ cleaner_in.data = Num(50000)
  /\ cleaner_out.value = Num(7140)

\* (v - 32) * 5/9 when the magnitude of v exceeds 60, v otherwise
AsCelsius(v) ==
  IF FloatLt(Lit(60), v) \/ FloatLt(v, Lit(-60))
  THEN FloatDiv(FloatMul(FloatSub(v, 32), 5), 9)
  ELSE v

\* C21 as stated: a temperature whose magnitude exceeds 60 is converted with
\* (v - 32) * 5/9, and the result is that (converted) value itself when it
\* lies in [-50, 60] and None otherwise.
C21_TemperatureExact ==
  CleanerReturned("_clean_temperature") =>
    LET v == cleaner_in.data
        c == AsCelsius(v)
        out == cleaner_out.value
    IN IF v # None /\ FloatLe(Lit(-50), c) /\ FloatLe(c, Lit(60))
       THEN out # None /\ out.n * c.d = c.n
       ELSE out = None

\* x is a decimal with one digit at most 0.05 away from num / den
RoundedTo1(x, num, den) ==
  /\ x.t = "num"
  /\ x.d = 1
  /\ x.n % 100 = 0
  /\ 2 * Abs(x.n * den - num) <= 100 * den

\* C21: a temperature whose magnitude exceeds 60 is converted with
\* (v - 32) * 5/9; the result is the (converted) value rounded to one
\* decimal when the (converted) value lies in [-50, 60], and None otherwise
\* (None, NaN, every value below -50, every value above 140).
C21_TemperatureRounded ==
  CleanerReturned("_clean_temperature") =>
    LET v == cleaner_in.data
        c == AsCelsius(v)
        out == cleaner_out.value
    IN IF v # None /\ FloatLe(Lit(-50), c) /\ FloatLe(c, Lit(60))
       THEN RoundedTo1(out, c.n, c.d)
       ELSE out = None

\* 61 was taken as Fahrenheit and came back as 16.1
C21_Witness ==
  /\ CleanerReturned("_clean_temperature")
  /\ cleaner_in.data = Num(61000)
  /\ cleaner_out.value = Num(16100)

(***************************************************************************)
(* Properties of the location hash, checked under SpecClean.               *)
(***************************************************************************)
\* the first 6 decimals of a coordinate
FirstSixDecimals(x) == IF x < 0 THEN -(Abs(x) \div 10) ELSE x \div 10

\* C24 as stated: two calls with the same (lat, lon) return the same hash,
\* two coordinates that differ in one of the first 6 decimals of latitude or
\* longitude return different hashes, and a hash has 32 hex characters.
C24_HashInjectiveOnFirstSixDecimals ==
  CleanerReturned("generate_location_hash") =>
    LET a == cleaner_in.data.a
        b == cleaner_in.data.b
        h == cleaner_out.value
    IN /\ a = b => h[1] = h[2]
       /\ (\/ FirstSixDecimals(a[1]) # FirstSixDecimals(b[1])
           \/ FirstSixDecimals(a[2]) # FirstSixDecimals(b[2])) => h[1] # h[2]
       /\ h[1].length = 32 /\ h[2].length = 32

\* the coordinate has no more than 6 decimals
SixDecimal(c) == c[1] % 10 = 0 /\ c[2] % 10 = 0

\* C24: two calls with the same (lat, lon) return the same hash; two
\* different coordinates return different hashes when both have no more
\* than 6 decimals, or when their latitudes or their longitudes are more
\* than 0.000001 apart; a hash has 32 hex characters.
C24_HashInjectiveOnRounded ==
  CleanerReturned("generate_location_hash") =>
    LET a == cleaner_in.data.a
        b == cleaner_in.data.b
        h == cleaner_out.value
    IN /\ a = b => h[1] = h[2]
       /\ (a # b /\ SixDecimal(a) /\ SixDecimal(b)) => h[1] # h[2]
       /\ (Abs(a[1] - b[1]) > 10 \/ Abs(a[2] - b[2]) > 10) => h[1] # h[2]
       /\ h[1].length = 32 /\ h[2].length = 32

\* two 6-decimal coordinates with the same latitude and different longitudes
\* got different hashes
C24_Witness ==
  /\ CleanerReturned("generate_location_hash")
  /\ cleaner_in.data.a = <<418781130, -876298000>>
  /\ cleaner_in.data.b = <<418781130, 134050000>>
  /\ cleaner_out.value[1] # cleaner_out.value[2]

(***************************************************************************)
(* Traceability of the stored rows.                                        *)
(***************************************************************************)
\* the row names a batch of the audit log
CarriesBatchId(r) == "batch_id" \in DOMAIN r /\ r.batch_id \in DOMAIN etl_audit_log

\* C25: every row the loader has written, a location, soil, weather or crop
\* row, carries the batch id of the batch that wrote it, so that it can be
\* traced to one audit row.
C25_EveryRowCarriesBatchId ==
  /\ \A r \in dim_location : CarriesBatchId(r)
  /\ \A r \in dim_soil : CarriesBatchId(r)
  /\ \A r \in fact_weather : CarriesBatchId(r)
  /\ \A r \in dim_crop : CarriesBatchId(r)

(***************************************************************************)
(* The soil run without records.                                           *)
(***************************************************************************)
\* the soil runs whose extraction yielded no record and in which nothing
\* else failed: the list has no valid coordinate, or the retrieval of its
\* one valid coordinate failed
EmptySoilRuns ==
  {i \in Completed :
     /\ run_log[i].kind = "soil"
     /\ \/ /\ ValidIndices(coordinates) = {}
           /\ run_log[i].failures = {}
        \/ /\ Cardinality(ValidIndices(coordinates)) = 1
           /\ run_log[i].failures = {"soil_request"}}

\* C28 as stated: a soil run whose extraction yields no record returns 0
\* without raising, and its audit row ends SUCCESS with records_processed 0.
C28_EmptySoilExtractionSucceeds ==
  \A i \in EmptySoilRuns :
    /\ run_log[i].outcome = "returned"
    /\ run_log[i].value = 0
    /\ etl_audit_log[run_log[i].batch].status = "SUCCESS"
    /\ etl_audit_log[run_log[i].batch].records_processed = 0

(***************************************************************************)
(* The count of the audit row.                                             *)
(***************************************************************************)
\* the run of process p ends: the handler is left and the call raises
RunEnds(p) ==
  /\ pc[p] = "except" /\ pc'[p] # "except"
  /\ batch_id[p] \in DOMAIN etl_audit_log
  /\ run_log'[Len(run_log')].outcome = "raised"

C30_LocationsHaveValidCoordinates ==
  \A r \in dim_location : validate_coordinates(r.latitude, r.longitude) = "ok"

(***************************************************************************)
(* Exceptions of the cleaning functions, checked under SpecClean.          *)
(***************************************************************************)
\* C27 as stated: clean_weather_data and clean_crop_requirements never
\* raise; for a record with null, non-numeric, NaN or out of range fields
\* they return a cleaned record.
C27_CleanersNeverRaise ==
  (cleaner_in.fn \in {"clean_weather_data", "clean_crop_requirements"} /\ cleaner_out.done)
    => cleaner_out.exc = "none"

\* the decision table on the shares rescaled to sum 100, in exact arithmetic
DecisionTable(clay, sand, silt) ==
  LET total == clay + sand + silt
  IN IF 100 * sand >= 85 * total /\ 200 * silt + 300 * clay < 30 * total THEN "Sand"
     ELSE IF 100 * silt >= 80 * total /\ 100 * clay < 12 * total THEN "Silt"
     ELSE IF 100 * clay >= 40 * total THEN "Clay"
     ELSE IF 100 * sand >= 52 * total /\ 100 * silt + 200 * clay < 50 * total
          THEN "Sandy Loam"
     ELSE IF 100 * silt >= 50 * total /\ 100 * clay < 27 * total THEN "Silt Loam"
     ELSE IF 100 * clay >= 27 * total /\ 100 * clay < 40 * total /\ 100 * sand > 20 * total
          THEN "Clay Loam"
     ELSE "Loam"

\* C26: texture inference, given any clay, sand and silt percentages whose sum
\* is positive (a component equal to 0 included), returns the first matching
\* class of the decision table applied to the shares rescaled to sum 100.
C26_TextureDecisionTable ==
  LET d == cleaner_in.data
  IN (/\ CleanerReturned("_infer_texture")
      /\ d.clay # None /\ d.sand # None /\ d.silt # None
      /\ d.clay.n + d.sand.n + d.silt.n > 0)
     => cleaner_out.value = Str(DecisionTable(d.clay.n, d.sand.n, d.silt.n))

\* the numeric sub-extractors and the requirement type of each
SubExtractors ==
  {[fn |-> "_extract_temperature", type |-> "temperature_range"],
   [fn |-> "_extract_water", type |-> "water_requirement"],
   [fn |-> "_extract_sunlight", type |-> "sunlight"],
   [fn |-> "_extract_ph", type |-> "ph_range"]}

\* the matches of the p-th pattern whose captured numbers pass the filter
PlausibleMatches(text, type, p) ==
  {i \in 1..Len(text[type][p]) : Plausible(type, text[type][p][i])}

\* the result of a sub-extractor is the value of the match m
ValueOf(type, result, m) ==
  IF type \in {"temperature_range", "ph_range"}
  THEN result = <<m.groups[1], m.groups[2], <<m.group0>>>>
  ELSE result = <<m.groups[1], Str(m.group0)>>

\* C22: a numeric sub-extractor returns the value of the lowest-index pattern
\* of the type's list that has a match whose captured numbers pass the
\* plausibility filter: a later pattern never overrides it, and the result
\* is none only when no pattern has a plausible match.
C22_LowestPlausiblePatternWins ==
  \A e \in SubExtractors :
    CleanerReturned(e.fn) =>
      LET text == cleaner_in.data
          ps == {p \in 1..PATTERNS[e.type] : PlausibleMatches(text, e.type, p) # {}}
      IN ps # {} =>
           \E i \in PlausibleMatches(text, e.type, First(ps)) :
             ValueOf(e.type, cleaner_out.value, text[e.type][First(ps)][i])

\* [present] as 0 or 1
Indicator(value) == IF value # None THEN 1 ELSE 0
Least(a, b) == IF a <= b THEN a ELSE b

\* C23: confidence_score is min(1.0, 0.30*[temperature present] + 0.30*[water
\* present] + 0.20*[sunlight present] + 0.20*[pH present] + min(0.05 *
\* evidence_count, 0.20)) with evidence_count the number of evidence snippets
\* collected; it lies in [0, 1] and at most 5 snippets are retained.
C23_ConfidenceScore ==
  CleanerReturned("extract") =>
    LET r == cleaner_out.value
        evidence_count == Len(collected_evidence(cleaner_in.data))
        score ==
          Least(1000,
                300 * Indicator(r.temp_min_c) + 300 * Indicator(r.water_mm_day)
                + 200 * Indicator(r.sunlight_hours) + 200 * Indicator(r.ph_min)
                + Least(50 * evidence_count, 200))
    IN /\ r.confidence_score = Num(score)
       /\ FloatLe(Lit(0), r.confidence_score) /\ FloatLe(r.confidence_score, Lit(1))
       /\ Len(r.raw_evidence) <= 5

\* an extraction that finds the four requirements, with four snippets: the
\* sum 1.2 is capped at 1.0
C23_Witness ==
  /\ CleanerReturned("extract")
  /\ cleaner_out.value.temp_min_c # None /\ cleaner_out.value.water_mm_day # None
  /\ cleaner_out.value.sunlight_hours # None /\ cleaner_out.value.ph_min # None
  /\ Len(cleaner_out.value.raw_evidence) = 4
  /\ cleaner_out.value.confidence_score = Lit(1)

=============================================================================
